---- MODULE Spec2Model ----
(***************************************************************************)
(* Model of smb-enumerate-share (src/index.js): one call of the exported   *)
(* async function, the socket event handlers it installs and the server    *)
(* that answers it.                                                        *)
(*                                                                         *)
(* Buffers are sequences of bytes (0..255); a JS offset o is index o+1.    *)
(* A 32-bit unsigned value read from a buffer is kept as its four bytes in *)
(* little-endian order (status codes such as 0xC0000016 exceed TLC's       *)
(* integers); Num gives its number.                                        *)
(* The async function runs from one await to the next in one action; a     *)
(* settled promise is picked up by the function before any further event   *)
(* handler runs (promise jobs precede the next I/O callback).              *)
(***************************************************************************)
EXTENDS Integers, Sequences, FiniteSets, TLC

VARIABLES
    options,          \* the argument of the call
    pc,               \* where the async function stands
    messageid,        \* index.js:79
    rpcMessageid,     \* index.js:79
    sessionid,        \* index.js:79, a hex string (sequence of hex digits)
    treeid,           \* index.js:79, a 32-bit value
    fileid,           \* index.js:79, the number 0 until set to a hex string
    done,             \* index.js:78
    shares,           \* index.js:78
    responsePromise,  \* index.js:78, the promise of the outstanding request
    socket,           \* the net.Socket: created, opened (connect called),
                      \* destroyed, ended, written
    inbound,          \* frames the server has sent, not yet read by 'data'
    error,            \* the error the call was rejected with
    responses,        \* history: request number and status of each frame
                      \* that resolved a request
    lastEvent         \* history: the socket event delivered last

vars == <<options, pc, messageid, rpcMessageid, sessionid, treeid, fileid,
          done, shares, responsePromise, socket, inbound, error, responses,
          lastEvent>>

(***************************************************************************)
(* Bounds of the model.                                                    *)
(***************************************************************************)
MaxFrames == 3        \* frames in one inbound delivery
MaxShares == 2        \* share entries in a generated procedure response
MaxEntries == 3       \* share entries in a response given to the parser

(***************************************************************************)
(* Buffer primitives.                                                      *)
(***************************************************************************)
Zeros(n) == [i \in 1..n |-> 0]

\* Buffer.slice(start, end): clamped, empty when end <= start
slice(buf, start, end) ==
    LET e == IF end > Len(buf) THEN Len(buf) ELSE end
    IN  IF start >= e THEN <<>> ELSE SubSeq(buf, start + 1, e)

\* the four bytes a writeUInt32LE(n) puts down, n < 2^31
U32LE(n) == <<n % 256, (n \div 256) % 256, (n \div 65536) % 256,
              (n \div 16777216) % 256>>

\* the four bytes a writeUInt32BE(n) puts down, n < 2^31
U32BE(n) == <<(n \div 16777216) % 256, (n \div 65536) % 256,
              (n \div 256) % 256, n % 256>>

\* the number of a 32-bit value kept as little-endian bytes; a number of
\* 2^28 or more is kept as 2^28: the code only uses these numbers as offsets
\* and lengths within a buffer, where every such number behaves alike
Num(u) ==
    IF u[4] >= 16 THEN 268435456
    ELSE u[1] + 256 * u[2] + 65536 * u[3] + 16777216 * u[4]

\* buf.readUInt32LE(off) throws a RangeError when off + 4 > buf.length
CanRead32(buf, off) == off + 4 <= Len(buf)

readUInt32LE(buf, off) == SubSeq(buf, off + 1, off + 4)

readUInt32BE(buf, off) ==
    Num(<<buf[off + 4], buf[off + 3], buf[off + 2], buf[off + 1]>>)

\* buf.toString('hex'): two hex digits per byte
RECURSIVE toHex(_)
toHex(buf) ==
    IF buf = <<>> THEN <<>>
    ELSE <<Head(buf) \div 16, Head(buf) % 16>> \o toHex(Tail(buf))

\* the bytes buf.write(str, off, max, 'hex') puts down: one byte per full
\* pair of digits, at most max bytes
hexBytes(str, max) ==
    LET n == IF Len(str) \div 2 > max THEN max ELSE Len(str) \div 2
    IN  [i \in 1..n |-> str[2 * i - 1] * 16 + str[2 * i]]

\* buf.toString('ucs2'): one code unit per full pair of bytes
toUcs2(buf) ==
    [i \in 1..(Len(buf) \div 2) |-> buf[2 * i - 1] + 256 * buf[2 * i]]

\* Number.prototype.toString(16) of a 32-bit value: no leading zeros
RECURSIVE stripZeros(_)
stripZeros(ds) ==
    IF Len(ds) > 1 /\ Head(ds) = 0 THEN stripZeros(Tail(ds)) ELSE ds

toString16(u) == stripZeros(toHex(<<u[4], u[3], u[2], u[1]>>))

\* Strings are sequences of one-character strings.
\* A long string is written with runs: the element "a{16340}" stands for
\* 16340 consecutive characters "a", "a{32757}" for 32757 of them.
charCount(c) ==
    CASE c = "a{16340}" -> 16340
      [] c = "a{32757}" -> 32757
      [] OTHER -> 1

\* str.length
RECURSIVE strLength(_)
strLength(str) ==
    IF str = <<>> THEN 0 ELSE charCount(Head(str)) + strLength(Tail(str))

(***************************************************************************)
(* Constants of index.js.                                                  *)
(***************************************************************************)
STATUS_PENDING == U32LE(259)                  \* 0x103
STATUS_SUCCESS == U32LE(0)
STATUS_MORE_PROCESSING == <<22, 0, 0, 192>>   \* 0xC0000016

NEGOTIATE == 0
SESSION_SETUP == 1
TREE_CONNECT == 3
CREATE == 5
CLOSE == 6
READ == 8
WRITE == 9
IOCTL == 11

SHARETYPES ==
    [t \in 0..3 |-> CASE t = 0 -> "DISK_TREE"
                      [] t = 1 -> "PRINT_QUEUE"
                      [] t = 2 -> "COMM_DEVICE"
                      [] t = 3 -> "IPC"]

\* COMMON_ERRORS[status], "" when the table has no such key
COMMON_ERRORS(status) ==
    CASE status = <<13, 0, 0, 192>>  -> "STATUS_INVALID_PARAMETER"
      [] status = <<34, 0, 0, 192>>  -> "STATUS_ACCESS_DENIED"
      [] status = <<94, 0, 0, 192>>  -> "STATUS_NO_LOGON_SERVERS"
      [] status = <<109, 0, 0, 192>> -> "STATUS_LOGON_FAILURE"
      [] status = <<114, 0, 0, 192>> -> "STATUS_ACCOUNT_DISABLED"
      [] status = <<187, 0, 0, 192>> -> "STATUS_NOT_SUPPORTED"
      [] OTHER -> ""

NoError == [name |-> "", status |-> <<>>, expected |-> <<>>]
Err(name) == [name |-> name, status |-> <<>>, expected |-> <<>>]

(***************************************************************************)
(* The server side: response frames as the code reads them.  A frame is a  *)
(* 4-byte big-endian length, the 64-byte header (status at offset 12,      *)
(* message id at 28, tree id at 40, session id at 44 of the buffer) and a  *)
(* body.                                                                   *)
(***************************************************************************)
MkFrame(status, command, msgid, tid, sid, body) ==
    U32BE(64 + Len(body))
    \o <<254, 83, 77, 66, 64, 0, 0, 0>>                 \* 4..11
    \o status                                           \* 12..15
    \o <<command, 0>> \o <<1, 0>> \o <<1, 0, 0, 0>>     \* 16..23
    \o Zeros(4)                                         \* 24..27
    \o U32LE(msgid) \o Zeros(4)                         \* 28..35
    \o Zeros(4)                                         \* 36..39
    \o tid                                              \* 40..43
    \o sid                                              \* 44..51
    \o Zeros(16)                                        \* 52..67
    \o body                                             \* 68..

\* a body with a 16-byte file handle at offsets 132..147 of the buffer
HandleBody(fid) == Zeros(64) \o fid

\* an IOCTL response body: the output offset (from the header's start) at
\* offset 100 of the buffer, the procedure response at offset 116
IoctlBody(rpc) == Zeros(32) \o U32LE(112) \o U32LE(Len(rpc)) \o Zeros(8) \o rpc

\* a string of the procedure response: 12-byte descriptor with the character
\* count (terminator included) at offset 8, the UTF-16 text, the terminator,
\* padded to a multiple of four bytes
RECURSIVE ucs2Bytes(_)
ucs2Bytes(str) ==
    IF str = <<>> THEN <<>>
    ELSE <<Head(str) % 256, Head(str) \div 256>> \o ucs2Bytes(Tail(str))

NdrString(str) ==
    LET L == Len(str) + 1
    IN  U32LE(L) \o U32LE(0) \o U32LE(L) \o ucs2Bytes(str) \o <<0, 0>>
        \o (IF L % 2 # 0 THEN <<0, 0>> ELSE <<>>)

RECURSIVE NdrEntries(_)
NdrEntries(ss) ==
    IF ss = <<>> THEN <<>>
    ELSE U32LE(1) \o Head(ss).type \o U32LE(1) \o NdrEntries(Tail(ss))

RECURSIVE NdrStrings(_)
NdrStrings(ss) ==
    IF ss = <<>> THEN <<>>
    ELSE NdrString(Head(ss).name) \o NdrString(Head(ss).comments)
         \o NdrStrings(Tail(ss))

\* the response of NetShareEnumAll declaring count shares and carrying ss
RpcResponse(count, ss) ==
    Zeros(36) \o U32LE(count) \o Zeros(8) \o NdrEntries(ss) \o NdrStrings(ss)

\* share descriptions the server draws from: name and comment of even and odd
\* length, the four kinds, an unlisted kind, the hidden and temporary bits
ServerShares ==
    << [type |-> <<0, 0, 0, 0>>,   name |-> <<80, 85, 66>>, comments |-> <<>>],
       [type |-> <<3, 0, 0, 128>>, name |-> <<73, 80, 67, 36>>,
        comments |-> <<82, 101>>],
       [type |-> <<2, 0, 0, 64>>,  name |-> <<67>>,
        comments |-> <<88, 89, 90>>],
       [type |-> <<4, 0, 0, 0>>,   name |-> <<81, 49>>, comments |-> <<90>>] >>

\* the procedure responses: the first n descriptions declared with count n,
\* and a truncated one that declares one share more than it carries
RpcResponses ==
    { RpcResponse(n, SubSeq(ServerShares, 1, n)) : n \in 0..MaxShares }
    \cup { RpcResponse(2, SubSeq(ServerShares, 1, 1)) }

StatusCodes ==
    { STATUS_SUCCESS, STATUS_PENDING, STATUS_MORE_PROCESSING,
      <<34, 0, 0, 192>>,      \* 0xC0000022, in COMMON_ERRORS
      <<1, 0, 0, 192>> }      \* 0xC0000001, not in COMMON_ERRORS

\* two servers' worth of identifiers
TreeIds == << <<1, 0, 0, 0>>, <<5, 0, 0, 0>> >>
SessionIds == << <<17, 0, 0, 0, 0, 4, 0, 0>>, <<34, 0, 0, 0, 0, 8, 0, 0>> >>
FileIds == << [i \in 1..16 |-> IF i = 1 THEN 171 ELSE 0],
              [i \in 1..16 |-> IF i = 1 THEN 205 ELSE i] >>

\* the frames the server may send in answer to the request with message id m
\* and opcode c: any status, the message id echoed or not, either identity;
\* or a successful answer that carries a procedure response
Frames(c, m) ==
    { MkFrame(st, c, id, TreeIds[v], SessionIds[v], HandleBody(FileIds[v])) :
        st \in StatusCodes, id \in {m, m + 1}, v \in 1..2 }
    \cup
    { MkFrame(STATUS_SUCCESS, c, m, TreeIds[1], SessionIds[1], IoctlBody(r)) :
        r \in RpcResponses }

\* interim frames that may precede a frame in the same delivery
LeadFrames(c, m) ==
    { MkFrame(st, c, m, TreeIds[2], SessionIds[2], HandleBody(FileIds[2])) :
        st \in {STATUS_PENDING, STATUS_SUCCESS} }

RECURSIVE Leads(_, _, _)
Leads(c, m, n) ==
    IF n = 0 THEN { <<>> }
    ELSE { <<f>> \o l : f \in LeadFrames(c, m), l \in Leads(c, m, n - 1) }

\* one delivery: up to MaxFrames frames, the last one any frame
Deliveries(c, m) ==
    UNION { { l \o <<f>> : l \in Leads(c, m, n), f \in Frames(c, m) } :
            n \in 0..(MaxFrames - 1) }

\* the bytes of a delivery, as the 'data' event hands them over
RECURSIVE Flatten(_)
Flatten(frames) ==
    IF frames = <<>> THEN <<>> ELSE Head(frames) \o Flatten(Tail(frames))

(***************************************************************************)
(* The program: helpers of the exported function.                          *)
(***************************************************************************)
AwaitPcs == {"negotiate", "session_setup_1", "session_setup_2", "tree_connect",
             "create", "write", "read", "ioctl", "close"}

NoPromise == [state |-> "none", value |-> <<>>]

\* lines 106-111: writeUInt16LE(params.length, ...) of TREE_CONNECT and
\* CREATE throws a RangeError for more than 65535 bytes of params
paramsOutOfRange(command, params) ==
    command \in {TREE_CONNECT, CREATE} /\ params > 65535

\* what createRequest gives when it throws
RangeErrorThrown == [thrown |-> "RangeError"]

\* createRequest without the write of the opcode at offset 16: the header
\* keeps the template's zero
createRequest_noOpcode(command, params, callid, mid, tid, sid, fid) ==
    LET sidBytes == hexBytes(sid, 8)
    IN  IF paramsOutOfRange(command, params) THEN RangeErrorThrown ELSE
        [command   |-> 0,
         messageid |-> mid,
         treeid    |-> tid,
         sessionid |-> sidBytes \o Zeros(8 - Len(sidBytes)),
         fileid    |-> IF command \in {WRITE, READ, IOCTL, CLOSE}
                       THEN hexBytes(fid.hex, Len(fid.hex))
                       ELSE <<>>,
         callid    |-> callid]

\* createRequest(command, params): the fields the code patches into the
\* buffer, from the variables as they stand when it is called (mid, tid, sid,
\* fid: messageid, treeid, sessionid, fileid).  The session id field keeps
\* the header's zeros where the hex string gives no byte; fileid is the
\* handle written into the structure; callid is the call id inside params.
\* The fixed bytes of the templates and the payloads built by the ntlm
\* library are not part of the record.  params is the number of bytes of
\* the params buffer (0 without params, and for the messages of the ntlm
\* library, whose length writeInt32LE takes whatever it is).
createRequest(command, params, callid, mid, tid, sid, fid) ==
    LET sidBytes == hexBytes(sid, 8)
    IN  IF paramsOutOfRange(command, params) THEN RangeErrorThrown ELSE
        [command   |-> command,
         messageid |-> mid,
         treeid    |-> tid,
         sessionid |-> sidBytes \o Zeros(8 - Len(sidBytes)),
         fileid    |-> IF command \in {WRITE, READ, IOCTL, CLOSE}
                       THEN hexBytes(fid.hex, Len(fid.hex))
                       ELSE <<>>,
         callid    |-> callid]

\* line 181: the bytes of Buffer.from('\\\\' + host + '\\IPC$', 'ucs2')
pathBytes(host) == 2 * (strLength(host) + 7)

\* lines 205-211: server_len and server_bytes_len of the NetShareEnumAll
\* request: '\\\\' + host + '\0', padded to an even number of characters
serverLen(host) == strLength(host) + 3
serverBytesLen(host) ==
    IF serverLen(host) % 2 # 0 THEN serverLen(host) * 2 + 2
    ELSE serverLen(host) * 2

\* line 217: base.writeInt16LE(server_bytes_len + 72, 8) throws a RangeError
\* above 32767
baseOutOfRange(host) == serverBytesLen(host) + 72 > 32767

\* lines 218-226: the bytes of the NetShareEnumAll request
ioctlBytes(host) == 40 + serverBytesLen(host) + 32

\* a RangeError thrown while a request is put together leaves the function:
\* nothing is written, the socket stays as it is
ThrowsRangeError ==
    /\ error' = Err("RangeError")
    /\ pc' = "failed"
    /\ UNCHANGED <<options, messageid, rpcMessageid, sessionid, treeid, fileid,
                   done, shares, responsePromise, socket, inbound, responses,
                   lastEvent>>

\* request without the increment of the counter
request_noIncrement(sock, message) ==
    /\ responsePromise' = [state |-> "pending", value |-> <<>>]
    /\ socket' = [sock EXCEPT !.written = Append(@, message)]
    /\ messageid' = messageid

\* request(message) on the socket sock: a fresh promise, the write, the
\* counter
request(sock, message) ==
    /\ responsePromise' = [state |-> "pending", value |-> <<>>]
    /\ socket' = [sock EXCEPT !.written = Append(@, message)]
    /\ messageid' = messageid + 1

\* the error of confirmStatus with the two codes of its message exchanged
statusError_swapsCodes(status, expected) ==
    IF COMMON_ERRORS(status) # "" THEN Err(COMMON_ERRORS(status))
    ELSE [name |-> "NTSTATUS", status |-> toString16(expected),
          expected |-> toString16(status)]

\* the error confirmStatus(status, expected) throws
statusError(status, expected) ==
    IF COMMON_ERRORS(status) # "" THEN Err(COMMON_ERRORS(status))
    ELSE [name |-> "NTSTATUS", status |-> toString16(status),
          expected |-> toString16(expected)]

\* confirmStatus that throws without destroying the socket
confirmStatusThrows_noDestroy(status, expected) ==
    /\ status # expected
    /\ error' = statusError(status, expected)
    /\ pc' = "failed"
    /\ UNCHANGED <<options, messageid, rpcMessageid, sessionid, treeid, fileid,
                   done, shares, responsePromise, socket, inbound, responses,
                   lastEvent>>

\* confirmStatus(status, expected) when it throws: destroys the socket; the
\* exception leaves the async function, which ends rejected
confirmStatusThrows(status, expected) ==
    /\ status # expected
    /\ socket' = [socket EXCEPT !.destroyed = TRUE]
    /\ error' = statusError(status, expected)
    /\ pc' = "failed"
    /\ UNCHANGED <<options, messageid, rpcMessageid, sessionid, treeid, fileid,
                   done, shares, responsePromise, inbound, responses,
                   lastEvent>>

\* the await of a rejected promise, the rejection of CLOSE being swallowed
AwaitRejected_swallowsAtClose ==
    /\ pc \in AwaitPcs
    /\ responsePromise.state = "rejected"
    /\ IF pc = "close"
       THEN pc' = "close_then" /\ error' = error
       ELSE pc' = "failed" /\ error' = responsePromise.value
    /\ UNCHANGED <<options, messageid, rpcMessageid, sessionid, treeid, fileid,
                   done, shares, responsePromise, socket, inbound, responses,
                   lastEvent>>

\* the await of a rejected promise throws the rejection
AwaitRejected ==
    /\ pc \in AwaitPcs
    /\ responsePromise.state = "rejected"
    /\ error' = responsePromise.value
    /\ pc' = "failed"
    /\ UNCHANGED <<options, messageid, rpcMessageid, sessionid, treeid, fileid,
                   done, shares, responsePromise, socket, inbound, responses,
                   lastEvent>>

\* the async function resumes with the buffer the promise was resolved with
Resumes(at) == pc = at /\ responsePromise.state = "resolved"

(***************************************************************************)
(* Parsing of the procedure response (index.js:229-252).                   *)
(***************************************************************************)
shareKind(shareType) ==
    IF shareType[1] \in DOMAIN SHARETYPES THEN SHARETYPES[shareType[1]]
    ELSE "undefined"

RECURSIVE firstPass(_, _, _, _, _)
firstPass(data, i, sharesCount, offset, acc) ==
    IF i >= sharesCount THEN [ok |-> TRUE, shares |-> acc, offset |-> offset]
    ELSE IF ~CanRead32(data, offset + 4)
         THEN [ok |-> FALSE, shares |-> acc, offset |-> offset]
    ELSE LET shareType == readUInt32LE(data, offset + 4)
         IN  firstPass(data, i + 1, sharesCount, offset + 12,
                 Append(acc, [type |-> shareKind(shareType),
                              hidden |-> shareType[4] >= 128,
                              temporary |-> (shareType[4] \div 64) % 2 = 1]))

\* the cursor after a string, without the padding of an odd length
advance_noPadding(offset, length) == offset + length * 2

\* the cursor after a string of length characters that starts at offset
advance(offset, length) ==
    offset + (IF length % 2 # 0 THEN length * 2 + 2 ELSE length * 2)

RECURSIVE secondPass(_, _, _, _, _)
secondPass(data, i, sharesCount, offset, acc) ==
    IF i >= sharesCount THEN [ok |-> TRUE, shares |-> acc, offset |-> offset]
    ELSE IF ~CanRead32(data, offset + 8)
         THEN [ok |-> FALSE, shares |-> acc, offset |-> offset]
    ELSE
    LET length1 == Num(readUInt32LE(data, offset + 8))
        o1 == offset + 12
        name == toUcs2(slice(data, o1, o1 + length1 * 2 - 2))
        o2 == advance(o1, length1)
        named == [type |-> acc[i + 1].type, hidden |-> acc[i + 1].hidden,
                  temporary |-> acc[i + 1].temporary, name |-> name]
    IN  IF ~CanRead32(data, o2 + 8)
        THEN [ok |-> FALSE, shares |-> [acc EXCEPT ![i + 1] = named],
              offset |-> o2]
        ELSE
        LET length2 == Num(readUInt32LE(data, o2 + 8))
            o3 == o2 + 12
            comments == toUcs2(slice(data, o3, o3 + length2 * 2 - 2))
            o4 == advance(o3, length2)
            full == [type |-> named.type, hidden |-> named.hidden,
                     temporary |-> named.temporary, name |-> name,
                     comments |-> comments]
        IN  secondPass(data, i + 1, sharesCount, o4,
                       [acc EXCEPT ![i + 1] = full])

\* the parse running its two loops one time too few
parseShares_oneShort(result) ==
    IF ~CanRead32(result, 100)
    THEN [ok |-> FALSE, shares |-> <<>>, offset |-> 48]
    ELSE
    LET data == slice(result, Num(readUInt32LE(result, 100)) + 4, Len(result))
    IN  IF ~CanRead32(data, 36)
        THEN [ok |-> FALSE, shares |-> <<>>, offset |-> 48]
        ELSE LET sharesCount == Num(readUInt32LE(data, 36)) - 1
                 p1 == firstPass(data, 0, sharesCount, 48, <<>>)
             IN  IF ~p1.ok THEN p1
                 ELSE secondPass(data, 0, sharesCount, p1.offset, p1.shares)

\* lines 230-252 on the buffer the IOCTL step was resolved with: the shares
\* array and whether the parse ran to its end (ok) or a read threw
parseShares(result) ==
    IF ~CanRead32(result, 100)
    THEN [ok |-> FALSE, shares |-> <<>>, offset |-> 48]
    ELSE
    LET data == slice(result, Num(readUInt32LE(result, 100)) + 4, Len(result))
    IN  IF ~CanRead32(data, 36)
        THEN [ok |-> FALSE, shares |-> <<>>, offset |-> 48]
        ELSE LET sharesCount == Num(readUInt32LE(data, 36))
                 p1 == firstPass(data, 0, sharesCount, 48, <<>>)
             IN  IF ~p1.ok THEN p1
                 ELSE secondPass(data, 0, sharesCount, p1.offset, p1.shares)

(***************************************************************************)
(* The argument of the call (index.js:54-77).                              *)
(***************************************************************************)
\* Strings are sequences of one-character strings; Undefined is the value of
\* an absent property or of a capture group that took no part in the match.
Undefined == <<"undefined">>

Digits == {"0", "1", "2", "3", "4", "5", "6", "7", "8", "9"}

\* the characters '.' does not match: the line terminators (the two beyond
\* ASCII are written by their code points)
LineTerminators == {"\n", "\r", "U+2028", "U+2029"}

\* [^:/]
HostChar(c) == c \notin {":", "/"}

\* the end of the longest run of characters satisfying P that starts at from
\* (from - 1 when there is none)
RECURSIVE runEnd(_, _, _)
runEnd(str, from, set) ==
    IF from <= Len(str) /\ str[from] \in set
    THEN runEnd(str, from + 1, set) ELSE from - 1

RECURSIVE hostEnd(_, _)
hostEnd(str, from) ==
    IF from <= Len(str) /\ HostChar(str[from])
    THEN hostEnd(str, from + 1) ELSE from - 1

\* The ways (?:(?:(.*?);)?(.*?)(?::(.*?))?@)? can match at the start of r
\* with a host character after it: <<i, j, k>> with the domain r[1..i-1]
\* ended by ';' at i (i = 0: no domain), the username r[i+1..j-1], the
\* password r[j+1..k-1] after ':' at j (k = j: no password) and '@' at k.
\* The three groups are (.*?): they take no line terminator.
userInfoMatches(r) ==
    { c \in (0..Len(r)) \X (1..Len(r)) \X (1..Len(r)) :
        LET i == c[1]
            j == c[2]
            k == c[3]
        IN  /\ i > 0 => r[i] = ";"
            /\ j > i
            /\ k >= j
            /\ r[k] = "@"
            /\ k > j => r[j] = ":"
            /\ k + 1 <= Len(r)
            /\ HostChar(r[k + 1])
            /\ \A m \in 1..(k - 1) : r[m] \notin LineTerminators }

\* the order in which the backtracking matcher tries them: a domain before
\* none, and every lazy group as short as possible
triedBefore(c, d) ==
    LET rank(x) == <<IF x[1] > 0 THEN 0 ELSE 1, x[1], x[2], x[3]>>
        a == rank(c)
        b == rank(d)
    IN  \/ a[1] < b[1]
        \/ a[1] = b[1] /\ a[2] < b[2]
        \/ a[1] = b[1] /\ a[2] = b[2] /\ a[3] < b[3]
        \/ a[1] = b[1] /\ a[2] = b[2] /\ a[3] = b[3] /\ a[4] <= b[4]

\* options.match(smbUrlRegex) and the object built from the groups
parseUrl(str) ==
    LET prefix == <<"s", "m", "b", ":", "/", "/">>
        r == SubSeq(str, 7, Len(str))
        ways == userInfoMatches(r)
        fields(domain, username, password, from) ==
            LET e == hostEnd(r, from)
                p == runEnd(r, e + 2, Digits)
            IN  [ok |-> TRUE,
                 domain |-> domain, username |-> username,
                 password |-> password,
                 host |-> SubSeq(r, from, e),
                 port |-> IF e + 1 <= Len(r) /\ r[e + 1] = ":" /\ p >= e + 2
                          THEN SubSeq(r, e + 2, p) ELSE Undefined,
                 timeout |-> Undefined]
    IN  IF Len(str) < 6 \/ SubSeq(str, 1, 6) # prefix THEN [ok |-> FALSE]
        ELSE IF ways # {}
        THEN LET w == CHOOSE c \in ways : \A d \in ways : triedBefore(c, d)
             IN  fields(IF w[1] > 0 THEN SubSeq(r, 1, w[1] - 1) ELSE Undefined,
                        SubSeq(r, w[1] + 1, w[2] - 1),
                        IF w[3] > w[2] THEN SubSeq(r, w[2] + 1, w[3] - 1)
                        ELSE Undefined,
                        w[3] + 1)
        ELSE IF Len(r) >= 1 /\ HostChar(r[1])
        THEN fields(Undefined, Undefined, Undefined, 1)
        ELSE [ok |-> FALSE]

\* lines 54-67: a string is replaced by the object parsed from it
parseOptions(opts) ==
    IF opts.type = "string" THEN parseUrl(opts.url)
    ELSE [ok |-> TRUE, domain |-> opts.domain, username |-> opts.username,
          password |-> opts.password, host |-> opts.host, port |-> opts.port,
          timeout |-> opts.timeout]

(***************************************************************************)
(* Numbers among the options (index.js:69, 73, 158, 160): what Number()    *)
(* makes of a string, as connect and setTimeout use it.                    *)
(***************************************************************************)
\* A value is undefined, a string, or a number: the tag "number" before a
\* numeral that Number() converts to that number.
NumberValue(numeral) == <<"number">> \o numeral
IsNumber(v) == Len(v) >= 1 /\ v[1] = "number"

\* white space and line terminators, which Number() strips at both ends (the
\* characters with no escape are written by their code points)
WhiteSpace ==
    {" ", "\t", "\n", "\r", "\f", "U+000B", "U+00A0", "U+FEFF", "U+1680",
     "U+2000", "U+2001", "U+2002", "U+2003", "U+2004", "U+2005", "U+2006",
     "U+2007", "U+2008", "U+2009", "U+200A", "U+2028", "U+2029", "U+202F",
     "U+205F", "U+3000"}

trim(str) ==
    LET ix == { i \in 1..Len(str) : str[i] \notin WhiteSpace }
    IN  IF ix = {} THEN <<>>
        ELSE SubSeq(str, CHOOSE i \in ix : \A j \in ix : i <= j,
                         CHOOSE i \in ix : \A j \in ix : i >= j)

LowerDigits == <<"0", "1", "2", "3", "4", "5", "6", "7", "8", "9",
                 "a", "b", "c", "d", "e", "f">>
UpperDigits == <<"0", "1", "2", "3", "4", "5", "6", "7", "8", "9",
                 "A", "B", "C", "D", "E", "F">>
DigitsOf(base) == { LowerDigits[n] : n \in 1..base }
                    \cup { UpperDigits[n] : n \in 1..base }
digitValue(c) ==
    CHOOSE n \in 0..15 : c \in {LowerDigits[n + 1], UpperDigits[n + 1]}

Least(S) == CHOOSE i \in S : \A j \in S : i <= j
Greatest(S) == CHOOSE i \in S : \A j \in S : i >= j

\* the number a run of digits stands for, cap for every number from cap on
RECURSIVE natValue(_, _, _, _)
natValue(ds, base, cap, acc) ==
    IF ds = <<>> THEN acc
    ELSE LET d == digitValue(Head(ds))
         IN  natValue(Tail(ds), base, cap,
                      IF acc > (cap - d) \div base THEN cap
                      ELSE acc * base + d)

\* the same after the leading zeros: more than 31 digits are 2^31 or more
numeralValue(ds, base, cap) ==
    LET nz == { i \in 1..Len(ds) : ds[i] # "0" }
    IN  IF nz = {} THEN 0
        ELSE IF Len(ds) - Least(nz) + 1 > 31 THEN cap
        ELSE natValue(SubSeq(ds, Least(nz), Len(ds)), base, cap, 0)

\* the result for every number that is no integer from 0 to 65535
NotAPort == 65536
\* Exponents are followed up to 2^30.  A string has fewer than 2^29
\* characters, so that a numeral with a larger exponent is Infinity or 0
\* whatever its digits are.
ExpCap == 1073741824

\* half of 0.ds: the digit before gives the carry
halve(ds) ==
    [i \in 1..(Len(ds) + 1) |->
        ((IF i > 1 THEN ds[i - 1] % 2 ELSE 0) * 10
           + (IF i <= Len(ds) THEN ds[i] ELSE 0)) \div 2]

\* the digits after the point of 2^-38 and, by halving, of 2^-k for k > 38
Pow2Neg38 == <<0, 0, 0, 0, 0, 0, 0, 0, 0, 0, 0, 3, 6, 3, 7, 9, 7, 8, 8,
                0, 7, 0, 9, 1, 7, 1, 2, 9, 5, 1, 6, 6, 0, 1, 5, 6, 2, 5>>

RECURSIVE pow2neg(_)
pow2neg(k) == IF k = 38 THEN Pow2Neg38 ELSE halve(pow2neg(k - 1))

\* a <= b for two runs of digits after the point
fracLeq(a, b) ==
    LET at(s, i) == IF i <= Len(s) THEN s[i] ELSE 0
        n == IF Len(a) > Len(b) THEN Len(a) ELSE Len(b)
        diff == { i \in 1..n : at(a, i) # at(b, i) }
    IN  \/ diff = {}
        \/ LET i == CHOOSE d \in diff : \A e \in diff : d <= e
           IN  at(a, i) < at(b, i)

\* The digits of 2^1024 - 2^970 = d.ddd... times 10^308: from this number
\* on a double is Infinity.
InfinityFrom ==
    <<1, 7, 9, 7, 6, 9, 3, 1, 3, 4, 8, 6, 2, 3, 1, 5, 8, 0, 7, 9, 3, 7, 2, 8, 9,
      7, 1, 4, 0, 5, 3, 0, 3, 4, 1, 5, 0, 7, 9, 9, 3, 4, 1, 3, 2, 7, 1, 0, 0, 3,
      7, 8, 2, 6, 9, 3, 6, 1, 7, 3, 7, 7, 8, 9, 8, 0, 4, 4, 4, 9, 6, 8, 2, 9, 2,
      7, 6, 4, 7, 5, 0, 9, 4, 6, 6, 4, 9, 0, 1, 7, 9, 7, 7, 5, 8, 7, 2, 0, 7, 0,
      9, 6, 3, 3, 0, 2, 8, 6, 4, 1, 6, 6, 9, 2, 8, 8, 7, 9, 1, 0, 9, 4, 6, 5, 5,
      5, 5, 4, 7, 8, 5, 1, 9, 4, 0, 4, 0, 2, 6, 3, 0, 6, 5, 7, 4, 8, 8, 6, 7, 1,
      5, 0, 5, 8, 2, 0, 6, 8, 1, 9, 0, 8, 9, 0, 2, 0, 0, 0, 7, 0, 8, 3, 8, 3, 6,
      7, 6, 2, 7, 3, 8, 5, 4, 8, 4, 5, 8, 1, 7, 7, 1, 1, 5, 3, 1, 7, 6, 4, 4, 7,
      5, 7, 3, 0, 2, 7, 0, 0, 6, 9, 8, 5, 5, 5, 7, 1, 3, 6, 6, 9, 5, 9, 6, 2, 2,
      8, 4, 2, 9, 1, 4, 8, 1, 9, 8, 6, 0, 8, 3, 4, 9, 3, 6, 4, 7, 5, 2, 9, 2, 7,
      1, 9, 0, 7, 4, 1, 6, 8, 4, 4, 4, 3, 6, 5, 5, 1, 0, 7, 0, 4, 3, 4, 2, 7, 1,
      1, 5, 5, 9, 6, 9, 9, 5, 0, 8, 0, 9, 3, 0, 4, 2, 8, 8, 0, 1, 7, 7, 9, 0, 4,
      1, 7, 4, 4, 9, 7, 7, 9, 2>>

\* The digits of 2^-1075 = d.ddd... times 10^-324: up to this number a
\* double is 0.
ZeroUpTo ==
    <<2, 4, 7, 0, 3, 2, 8, 2, 2, 9, 2, 0, 6, 2, 3, 2, 7, 2, 0, 8, 8, 2, 8, 4, 3,
      9, 6, 4, 3, 4, 1, 1, 0, 6, 8, 6, 1, 8, 2, 5, 2, 9, 9, 0, 1, 3, 0, 7, 1, 6,
      2, 3, 8, 2, 2, 1, 2, 7, 9, 2, 8, 4, 1, 2, 5, 0, 3, 3, 7, 7, 5, 3, 6, 3, 5,
      1, 0, 4, 3, 7, 5, 9, 3, 2, 6, 4, 9, 9, 1, 8, 1, 8, 0, 8, 1, 7, 9, 9, 6, 1,
      8, 9, 8, 9, 8, 2, 8, 2, 3, 4, 7, 7, 2, 2, 8, 5, 8, 8, 6, 5, 4, 6, 3, 3, 2,
      8, 3, 5, 5, 1, 7, 7, 9, 6, 9, 8, 9, 8, 1, 9, 9, 3, 8, 7, 3, 9, 8, 0, 0, 5,
      3, 9, 0, 9, 3, 9, 0, 6, 3, 1, 5, 0, 3, 5, 6, 5, 9, 5, 1, 5, 5, 7, 0, 2, 2,
      6, 3, 9, 2, 2, 9, 0, 8, 5, 8, 3, 9, 2, 4, 4, 9, 1, 0, 5, 1, 8, 4, 4, 3, 5,
      9, 3, 1, 8, 0, 2, 8, 4, 9, 9, 3, 6, 5, 3, 6, 1, 5, 2, 5, 0, 0, 3, 1, 9, 3,
      7, 0, 4, 5, 7, 6, 7, 8, 2, 4, 9, 2, 1, 9, 3, 6, 5, 6, 2, 3, 6, 6, 9, 8, 6,
      3, 6, 5, 8, 4, 8, 0, 7, 5, 7, 0, 0, 1, 5, 8, 5, 7, 6, 9, 2, 6, 9, 9, 0, 3,
      7, 0, 6, 3, 1, 1, 9, 2, 8, 2, 7, 9, 5, 5, 8, 5, 5, 1, 3, 3, 2, 9, 2, 7, 8,
      3, 4, 3, 3, 8, 4, 0, 9, 3, 5, 1, 9, 7, 8, 0, 1, 5, 5, 3, 1, 2, 4, 6, 5, 9,
      7, 2, 6, 3, 5, 7, 9, 5, 7, 4, 6, 2, 2, 7, 6, 6, 4, 6, 5, 2, 7, 2, 8, 2, 7,
      2, 2, 0, 0, 5, 6, 3, 7, 4, 0, 0, 6, 4, 8, 5, 4, 9, 9, 9, 7, 7, 0, 9, 6, 5,
      9, 9, 4, 7, 0, 4, 5, 4, 0, 2, 0, 8, 2, 8, 1, 6, 6, 2, 2, 6, 2, 3, 7, 8, 5,
      7, 3, 9, 3, 4, 5, 0, 7, 3, 6, 3, 3, 9, 0, 0, 7, 9, 6, 7, 7, 6, 1, 9, 3, 0,
      5, 7, 7, 5, 0, 6, 7, 4, 0, 1, 7, 6, 3, 2, 4, 6, 7, 3, 6, 0, 0, 9, 6, 8, 9,
      5, 1, 3, 4, 0, 5, 3, 5, 5, 3, 7, 4, 5, 8, 5, 1, 6, 6, 6, 1, 1, 3, 4, 2, 2,
      3, 7, 6, 6, 6, 7, 8, 6, 0, 4, 1, 6, 2, 1, 5, 9, 6, 8, 0, 4, 6, 1, 9, 1, 4,
      4, 6, 7, 2, 9, 1, 8, 4, 0, 3, 0, 0, 5, 3, 0, 0, 5, 7, 5, 3, 0, 8, 4, 9, 0,
      4, 8, 7, 6, 5, 3, 9, 1, 7, 1, 1, 3, 8, 6, 5, 9, 1, 6, 4, 6, 2, 3, 9, 5, 2,
      4, 9, 1, 2, 6, 2, 3, 6, 5, 3, 8, 8, 1, 8, 7, 9, 6, 3, 6, 2, 3, 9, 3, 7, 3,
      2, 8, 0, 4, 2, 3, 8, 9, 1, 0, 1, 8, 6, 7, 2, 3, 4, 8, 4, 9, 7, 6, 6, 8, 2,
      3, 5, 0, 8, 9, 8, 6, 3, 3, 8, 8, 5, 8, 7, 9, 2, 5, 6, 2, 8, 3, 0, 2, 7, 5,
      5, 9, 9, 5, 6, 5, 7, 5, 2, 4, 4, 5, 5, 5, 0, 7, 2, 5, 5, 1, 8, 9, 3, 1, 3,
      6, 9, 0, 8, 3, 6, 2, 5, 4, 7, 7, 9, 1, 8, 6, 9, 4, 8, 6, 6, 7, 9, 9, 4, 9,
      6, 8, 3, 2, 4, 0, 4, 9, 7, 0, 5, 8, 2, 1, 0, 2, 8, 5, 1, 3, 1, 8, 5, 4, 5,
      1, 3, 9, 6, 2, 1, 3, 8, 3, 7, 7, 2, 2, 8, 2, 6, 1, 4, 5, 4, 3, 7, 6, 9, 3,
      4, 1, 2, 5, 3, 2, 0, 9, 8, 5, 9, 1, 3, 2, 7, 6, 6, 7, 2, 3, 6, 3, 2, 8, 1,
      2, 5>>

NaN == [nan |-> TRUE, neg |-> FALSE, zero |-> FALSE, finite |-> FALSE,
        int |-> NotAPort]
Infinite(neg) == [nan |-> FALSE, neg |-> neg, zero |-> FALSE,
                  finite |-> FALSE, int |-> NotAPort]
\* a finite number: int is its value when that is an integer from 0 to 65535
Finite(neg, int) ==
    [nan |-> FALSE, neg |-> neg /\ int # 0, zero |-> int = 0, finite |-> TRUE,
     int |-> IF (neg /\ int # 0) \/ int > 65535 THEN NotAPort ELSE int]

\* the double nearest to n + 0.frac (frac ends with a digit that is not 0):
\* n or n + 1 when the numeral is within half the distance between doubles
\* of it, else no integer
roundToInteger(n, frac) ==
    LET f == [i \in 1..Len(frac) |-> digitValue(frac[i])]
        c == [i \in 1..Len(f) |-> IF i = Len(f) THEN 10 - f[i] ELSE 9 - f[i]]
        j == IF n = 0 THEN -1
             ELSE CHOOSE b \in 0..15 : 2^b <= n /\ n < 2^(b + 1)
        half == pow2neg(53 - j)
    IN  IF n > 65535 THEN NotAPort
        ELSE IF n > 0 /\ fracLeq(f, half) THEN n
        ELSE IF fracLeq(c, half) THEN n + 1
        ELSE NotAPort

\* the double of the decimal numeral int.frac times 10^e, without its sign
decimalValue(neg, int, frac, e) ==
    LET D  == int \o frac
        nz == { i \in 1..Len(D) : D[i] # "0" }
    IN  IF nz = {} THEN Finite(neg, 0)
        ELSE
        LET first == Least(nz)
            \* the numeral is S[1].S[2..] times 10^x
            S == SubSeq(D, first, Greatest(nz))
            x == Len(int) - first + e
            s == [i \in 1..Len(S) |-> digitValue(S[i])]
        IN  IF x > 308 \/ (x = 308 /\ fracLeq(InfinityFrom, s))
            THEN Infinite(neg)
            ELSE IF x >= 5 THEN Finite(neg, NotAPort)
            ELSE IF x >= 0
            THEN IF Len(S) <= x + 1
                 THEN Finite(neg, natValue(S, 10, NotAPort, 0)
                                    * 10^(x + 1 - Len(S)))
                 ELSE Finite(neg,
                             roundToInteger(
                                 natValue(SubSeq(S, 1, x + 1), 10,
                                          NotAPort, 0),
                                 SubSeq(S, x + 2, Len(S))))
            ELSE IF x = -1 THEN Finite(neg, roundToInteger(0, S))
            ELSE IF x < -324 \/ (x = -324 /\ fracLeq(s, ZeroUpTo))
            THEN Finite(FALSE, 0)
            ELSE Finite(neg, NotAPort)

\* the end of the run of decimal digits of b that starts at from
digitsEnd(b, from) ==
    LET stop == { i \in from..Len(b) : b[i] \notin Digits }
    IN  IF stop = {} THEN Len(b) ELSE Least(stop) - 1

\* StrDecimalLiteral without its sign: digits, a point, digits, an exponent
decimalLiteral(neg, b) ==
    LET i1   == digitsEnd(b, 1)
        dot  == i1 + 1 <= Len(b) /\ b[i1 + 1] = "."
        i2   == IF dot THEN digitsEnd(b, i1 + 2) ELSE i1
        int  == SubSeq(b, 1, i1)
        frac == IF dot THEN SubSeq(b, i1 + 2, i2) ELSE <<>>
        sgn  == i2 + 2 <= Len(b) /\ b[i2 + 2] \in {"+", "-"}
        from == IF sgn THEN i2 + 3 ELSE i2 + 2
        exp  == SubSeq(b, from, Len(b))
    IN  IF Len(int) + Len(frac) = 0 THEN NaN
        ELSE IF i2 = Len(b) THEN decimalValue(neg, int, frac, 0)
        ELSE IF /\ b[i2 + 1] \in {"e", "E"}
                /\ exp # <<>>
                /\ \A i \in 1..Len(exp) : exp[i] \in Digits
        THEN LET e == numeralValue(exp, 10, ExpCap)
             IN  decimalValue(neg, int, frac,
                              IF sgn /\ b[i2 + 2] = "-" THEN 0 - e ELSE e)
        ELSE NaN

\* 0x, 0o and 0b numerals, which take no sign: w bits for a digit, and
\* Infinity from 2^1024 - 2^970 on, which is 54 bits 1 and 970 bits after
\* them
radixLiteral(t) ==
    LET w    == IF t[2] \in {"x", "X"} THEN 4
                ELSE IF t[2] \in {"o", "O"} THEN 3 ELSE 1
        ds   == SubSeq(t, 3, Len(t))
        bit(i) == (digitValue(ds[(i - 1) \div w + 1])
                     \div 2^(w - 1 - ((i - 1) % w))) % 2
        ones == { i \in 1..(w * Len(ds)) : bit(i) = 1 }
        bits == w * Len(ds) - Least(ones) + 1
    IN  IF ds = <<>> \/ \E i \in 1..Len(ds) : ds[i] \notin DigitsOf(2^w)
        THEN NaN
        ELSE IF ones = {} THEN Finite(FALSE, 0)
        ELSE IF \/ bits > 1024
                \/ /\ bits = 1024
                   /\ \A i \in Least(ones)..(Least(ones) + 53) : bit(i) = 1
        THEN Infinite(FALSE)
        ELSE Finite(FALSE, numeralValue(ds, 2^w, NotAPort))

\* Number(str)
StringToNumber(str) ==
    LET t    == trim(str)
        sgn  == t # <<>> /\ t[1] \in {"+", "-"}
        neg  == sgn /\ t[1] = "-"
        b    == IF sgn THEN Tail(t) ELSE t
    IN  IF t = <<>> THEN Finite(FALSE, 0)
        ELSE IF b = <<"I", "n", "f", "i", "n", "i", "t", "y">>
        THEN Infinite(neg)
        ELSE IF /\ Len(t) >= 2
                /\ t[1] = "0"
                /\ t[2] \in {"x", "X", "o", "O", "b", "B"}
        THEN radixLiteral(t)
        ELSE decimalLiteral(neg, b)

\* the number of a number, Number(v) of a string
numberOf(v) == StringToNumber(IF IsNumber(v) THEN Tail(v) ELSE v)

\* a falsy value: undefined, the empty string, the numbers 0 and NaN
Falsy(v) ==
    \/ v = Undefined
    \/ v = <<>>
    \/ IsNumber(v) /\ (numberOf(v).nan \/ numberOf(v).zero)

\* line 158, connect(port, host): a string that converts to no number or to
\* a negative one is taken as the path of a pipe
isPipeName(s) == ~IsNumber(s) /\ (numberOf(s).nan \/ numberOf(s).neg)

\* line 158: the port is an integer from 0 to 65535, or a string that
\* converts to one and is not blank
validatePort(port) ==
    /\ IsNumber(port) \/ trim(port) # <<>>
    /\ numberOf(port).int <= 65535

\* lines 69 and 158: socket.connect(options.port || 445, host) throws
\* ERR_SOCKET_BAD_PORT for a port that is no pipe path and no valid port
connectThrows(port) ==
    LET p == IF Falsy(port) THEN NumberValue(<<"4", "4", "5">>) ELSE port
    IN  ~isPipeName(p) /\ ~validatePort(p)

\* lines 73 and 160: what socket.setTimeout(options.timeout || 5000) throws,
\* ERR_INVALID_ARG_TYPE for what is no number and ERR_OUT_OF_RANGE for a
\* negative or infinite number
setTimeoutThrows(timeout) ==
    LET msecs == IF Falsy(timeout) THEN NumberValue(<<"5", "0", "0", "0">>)
                 ELSE timeout
    IN  IF ~IsNumber(msecs) THEN "TypeError"
        ELSE IF numberOf(msecs).neg \/ ~numberOf(msecs).finite
        THEN "RangeError"
        ELSE "none"

\* the option objects: host is undefined or a string
Obj(host) == [type |-> "object", domain |-> Undefined, username |-> Undefined,
              password |-> Undefined, host |-> host, port |-> Undefined,
              timeout |-> Undefined]
Url(str) == [type |-> "string", url |-> str]

\* the arguments the call is tried with
Options ==
    { Obj(<<"s", "r", "v">>), Obj(<<>>), Obj(Undefined),
      Url(<<"s", "m", "b", ":", "/", "/", "s", "r", "v">>),
      Url(<<"s", "m", "b", ":", "/", "/", "s", "r", "v", "/", "x">>),
      Url(<<"s", "m", "b", ":", "/", "/", "d", ";", "u", ":", "p", "@",
            "s", "r", "v", ":", "4", "4", "5">>),
      Url(<<"s", "m", "b", ":", "/", "/">>),
      Url(<<"s", "m", "b", ":", "/", "/", ":", "4">>),
      Url(<<"s", "m", "b", ":", "/", "/", ":", "@">>),
      Url(<<"s", "m", "b", ":", "/", "/", ":", "\n", "@", "h">>),
      Url(<<"s", "m", "b", ":", "/", "/", "s", "r", "v", ":", "9", "9", "9",
            "9", "9">>),
      [Obj(<<"s", "r", "v">>) EXCEPT !.port = <<"7", "0", "0", "0", "0">>],
      [Obj(<<"s", "r", "v">>) EXCEPT !.port = NumberValue(<<"-", "1">>)],
      [Obj(<<"s", "r", "v">>) EXCEPT !.port = <<"1", ".", "5">>],
      [Obj(<<"s", "r", "v">>) EXCEPT !.timeout = NumberValue(<<"-", "1">>)],
      [Obj(<<"s", "r", "v">>) EXCEPT !.timeout = <<"1", "0", "0">>],
      [Obj(<<"a{32757}", "a", "a", "a", "a">>)
         EXCEPT !.port = <<"1", "e", "3">>],
      [Obj(<<"a{32757}", "a", "a", "a", "a">>)
         EXCEPT !.port = <<"-", "1">>],
      [Obj(<<"a{32757}", "a", "a", "a", "a">>)
         EXCEPT !.port = <<" ", "8", "0">>,
                !.timeout = NumberValue(<<"1", "e", "9", "9">>)],
      Obj(<<"a{16340}", "a", "a", "a", "a">>),
      Obj(<<"a{32757}", "a", "a", "a", "a">>),
      Url(<<"s", "m", "b", ":", "/", "s", "r", "v">>),
      Url(<<"s", "r", "v">>) }

(***************************************************************************)
(* The exported function, from one await to the next.                      *)
(***************************************************************************)
Init ==
    /\ options \in Options
    /\ pc = "start"
    /\ messageid = 0
    /\ rpcMessageid = 0
    /\ sessionid = <<0>>
    /\ treeid = U32LE(0)
    /\ fileid = [isString |-> FALSE, hex |-> <<>>]
    /\ done = FALSE
    /\ shares = <<>>
    /\ responsePromise = NoPromise
    /\ socket = [created |-> FALSE, opened |-> FALSE,
                 destroyed |-> FALSE, ended |-> FALSE,
                 written |-> <<>>]
    /\ inbound = <<>>
    /\ error = NoError
    /\ responses = <<>>
    /\ lastEvent = "none"

\* the function creating the socket before it looks at the host
Start_socketBeforeHostCheck ==
    /\ pc = "start"
    /\ LET opts == parseOptions(options)
       IN  IF ~opts.ok
           THEN /\ error' = Err("Invalid smb url")
                /\ pc' = "failed"
                /\ UNCHANGED <<options, messageid, responsePromise, socket>>
           ELSE IF Falsy(opts.host)
           THEN /\ error' = Err("No host provided")
                /\ pc' = "failed"
                /\ options' = [type |-> "object", domain |-> opts.domain,
                               username |-> opts.username,
                               password |-> opts.password,
                               host |-> opts.host, port |-> opts.port,
                               timeout |-> opts.timeout]
                /\ socket' = [socket EXCEPT !.created = TRUE]
                /\ UNCHANGED <<messageid, responsePromise>>
           ELSE IF connectThrows(opts.port)
           THEN /\ error' = Err("RangeError")
                /\ pc' = "failed"
                /\ options' = [type |-> "object", domain |-> opts.domain,
                               username |-> opts.username,
                               password |-> opts.password,
                               host |-> opts.host, port |-> opts.port,
                               timeout |-> opts.timeout]
                /\ socket' = [socket EXCEPT !.created = TRUE]
                /\ UNCHANGED <<messageid, responsePromise>>
           ELSE IF setTimeoutThrows(opts.timeout) # "none"
           THEN /\ error' = Err(setTimeoutThrows(opts.timeout))
                /\ pc' = "failed"
                /\ options' = [type |-> "object", domain |-> opts.domain,
                               username |-> opts.username,
                               password |-> opts.password,
                               host |-> opts.host, port |-> opts.port,
                               timeout |-> opts.timeout]
                /\ socket' = [socket EXCEPT !.created = TRUE,
                                            !.opened = TRUE]
                /\ UNCHANGED <<messageid, responsePromise>>
           ELSE /\ options' = [type |-> "object", domain |-> opts.domain,
                               username |-> opts.username,
                               password |-> opts.password,
                               host |-> opts.host, port |-> opts.port,
                               timeout |-> opts.timeout]
                /\ request([socket EXCEPT !.created = TRUE, !.opened = TRUE],
                           createRequest(NEGOTIATE, 0, 0, messageid, treeid,
                                         sessionid, fileid))
                /\ pc' = "negotiate"
                /\ error' = error
    /\ UNCHANGED <<rpcMessageid, sessionid, treeid, fileid, done,
                   shares, inbound, responses,
                   lastEvent>>

\* lines 53-165: the options, the socket, the NEGOTIATE request; connect
\* (line 158) throws for a bad port after the socket was created, setTimeout
\* (line 160) for a bad timeout after connect was called, both before
\* anything is written
Start ==
    /\ pc = "start"
    /\ LET opts == parseOptions(options)
       IN  IF ~opts.ok
           THEN /\ error' = Err("Invalid smb url")
                /\ pc' = "failed"
                /\ UNCHANGED <<options, messageid, responsePromise, socket>>
           ELSE IF Falsy(opts.host)
           THEN /\ error' = Err("No host provided")
                /\ pc' = "failed"
                /\ options' = [type |-> "object", domain |-> opts.domain,
                               username |-> opts.username,
                               password |-> opts.password,
                               host |-> opts.host, port |-> opts.port,
                               timeout |-> opts.timeout]
                /\ UNCHANGED <<messageid, responsePromise, socket>>
           ELSE IF connectThrows(opts.port)
           THEN /\ error' = Err("RangeError")
                /\ pc' = "failed"
                /\ options' = [type |-> "object", domain |-> opts.domain,
                               username |-> opts.username,
                               password |-> opts.password,
                               host |-> opts.host, port |-> opts.port,
                               timeout |-> opts.timeout]
                /\ socket' = [socket EXCEPT !.created = TRUE]
                /\ UNCHANGED <<messageid, responsePromise>>
           ELSE IF setTimeoutThrows(opts.timeout) # "none"
           THEN /\ error' = Err(setTimeoutThrows(opts.timeout))
                /\ pc' = "failed"
                /\ options' = [type |-> "object", domain |-> opts.domain,
                               username |-> opts.username,
                               password |-> opts.password,
                               host |-> opts.host, port |-> opts.port,
                               timeout |-> opts.timeout]
                /\ socket' = [socket EXCEPT !.created = TRUE,
                                            !.opened = TRUE]
                /\ UNCHANGED <<messageid, responsePromise>>
           ELSE /\ options' = [type |-> "object", domain |-> opts.domain,
                               username |-> opts.username,
                               password |-> opts.password,
                               host |-> opts.host, port |-> opts.port,
                               timeout |-> opts.timeout]
                /\ request([socket EXCEPT !.created = TRUE, !.opened = TRUE],
                           createRequest(NEGOTIATE, 0, 0, messageid, treeid,
                                         sessionid, fileid))
                /\ pc' = "negotiate"
                /\ error' = error
    /\ UNCHANGED <<rpcMessageid, sessionid, treeid, fileid, done,
                   shares, inbound, responses,
                   lastEvent>>

\* lines 166-170
AfterNegotiate ==
    /\ Resumes("negotiate")
    /\ LET result == responsePromise.value
       IN  \/ confirmStatusThrows(readUInt32LE(result, 12), STATUS_SUCCESS)
           \/ /\ readUInt32LE(result, 12) = STATUS_SUCCESS
              /\ request(socket,
                         createRequest(SESSION_SETUP, 0, 0, messageid,
                                       treeid, sessionid, fileid))
              /\ pc' = "session_setup_1"
              /\ UNCHANGED <<options, rpcMessageid, sessionid, treeid, fileid,
                             done, shares, inbound, error, responses,
                   lastEvent>>

\* lines 171-177
AfterSessionSetup1 ==
    /\ Resumes("session_setup_1")
    /\ LET result == responsePromise.value
       IN  \/ confirmStatusThrows(readUInt32LE(result, 12),
                                  STATUS_MORE_PROCESSING)
           \/ /\ readUInt32LE(result, 12) = STATUS_MORE_PROCESSING
              /\ sessionid' = toHex(slice(result, 44, 52))
              /\ request(socket,
                         createRequest(SESSION_SETUP, 0, 0, messageid,
                                       treeid, sessionid', fileid))
              /\ pc' = "session_setup_2"
              /\ UNCHANGED <<options, rpcMessageid, treeid, fileid, done,
                             shares, inbound, error, responses,
                   lastEvent>>

\* the step after the second SESSION_SETUP reading the tree id one step early
AfterSessionSetup2_takesTreeId ==
    /\ Resumes("session_setup_2")
    /\ LET result == responsePromise.value
       IN  \/ confirmStatusThrows(readUInt32LE(result, 12), STATUS_SUCCESS)
           \/ /\ readUInt32LE(result, 12) = STATUS_SUCCESS
              /\ IF paramsOutOfRange(TREE_CONNECT, pathBytes(options.host))
                 THEN ThrowsRangeError
                 ELSE
                 /\ treeid' = readUInt32LE(result, 40)
                 /\ request(socket,
                        createRequest(TREE_CONNECT, pathBytes(options.host),
                                      0, messageid, treeid', sessionid,
                                      fileid))
                 /\ pc' = "tree_connect"
                 /\ UNCHANGED <<options, rpcMessageid, sessionid, fileid,
                                done, shares, inbound, error, responses,
                                lastEvent>>

\* lines 178-182: createRequest throws for a path of more than 65535 bytes
AfterSessionSetup2 ==
    /\ Resumes("session_setup_2")
    /\ LET result == responsePromise.value
       IN  \/ confirmStatusThrows(readUInt32LE(result, 12), STATUS_SUCCESS)
           \/ /\ readUInt32LE(result, 12) = STATUS_SUCCESS
              /\ IF paramsOutOfRange(TREE_CONNECT, pathBytes(options.host))
                 THEN ThrowsRangeError
                 ELSE
                 /\ request(socket,
                        createRequest(TREE_CONNECT, pathBytes(options.host),
                                      0, messageid, treeid, sessionid,
                                      fileid))
                 /\ pc' = "tree_connect"
                 /\ UNCHANGED <<options, rpcMessageid, sessionid, treeid,
                                fileid, done, shares, inbound, error,
                                responses, lastEvent>>

\* the step after TREE_CONNECT taking the session id from its response too
AfterTreeConnect_takesSessionId ==
    /\ Resumes("tree_connect")
    /\ LET result == responsePromise.value
       IN  \/ confirmStatusThrows(readUInt32LE(result, 12), STATUS_SUCCESS)
           \/ /\ readUInt32LE(result, 12) = STATUS_SUCCESS
              /\ treeid' = readUInt32LE(result, 40)
              /\ sessionid' = toHex(slice(result, 44, 52))
              /\ request(socket,
                         createRequest(CREATE, 12, 0, messageid,
                                       treeid', sessionid', fileid))
              /\ pc' = "create"
              /\ UNCHANGED <<options, rpcMessageid, fileid, done,
                             shares, inbound, error, responses, lastEvent>>

\* lines 183-187
AfterTreeConnect ==
    /\ Resumes("tree_connect")
    /\ LET result == responsePromise.value
       IN  \/ confirmStatusThrows(readUInt32LE(result, 12), STATUS_SUCCESS)
           \/ /\ readUInt32LE(result, 12) = STATUS_SUCCESS
              /\ treeid' = readUInt32LE(result, 40)
              /\ request(socket,
                         createRequest(CREATE, 12, 0, messageid,
                                       treeid', sessionid, fileid))
              /\ pc' = "create"
              /\ UNCHANGED <<options, rpcMessageid, sessionid, fileid, done,
                             shares, inbound, error, responses,
                   lastEvent>>

\* lines 188-199
AfterCreate ==
    /\ Resumes("create")
    /\ LET result == responsePromise.value
       IN  \/ confirmStatusThrows(readUInt32LE(result, 12), STATUS_SUCCESS)
           \/ /\ readUInt32LE(result, 12) = STATUS_SUCCESS
              /\ fileid' = [isString |-> TRUE,
                            hex |-> toHex(slice(result, 132, 148))]
              /\ rpcMessageid' = rpcMessageid + 1
              /\ request(socket,
                         createRequest(WRITE, 116, rpcMessageid, messageid,
                                       treeid, sessionid, fileid'))
              /\ pc' = "write"
              /\ UNCHANGED <<options, sessionid, treeid, done, shares,
                             inbound, error, responses,
                   lastEvent>>

\* the step after WRITE issuing READ and IOCTL without awaiting in between
AfterWrite_noAwait ==
    /\ Resumes("write")
    /\ LET result == responsePromise.value
       IN  \/ confirmStatusThrows(readUInt32LE(result, 12), STATUS_SUCCESS)
           \/ /\ readUInt32LE(result, 12) = STATUS_SUCCESS
              /\ responsePromise' = [state |-> "pending", value |-> <<>>]
              /\ socket' = [socket EXCEPT !.written =
                   @ \o <<createRequest(READ, 0, 0, messageid, treeid,
                                        sessionid, fileid),
                          createRequest(IOCTL, ioctlBytes(options.host),
                                        rpcMessageid, messageid + 1,
                                        treeid, sessionid, fileid)>>]
              /\ messageid' = messageid + 2
              /\ pc' = "ioctl"
              /\ UNCHANGED <<options, rpcMessageid, sessionid, treeid, fileid,
                             done, shares, inbound, error, responses,
                             lastEvent>>

\* lines 200-203
AfterWrite ==
    /\ Resumes("write")
    /\ LET result == responsePromise.value
       IN  \/ confirmStatusThrows(readUInt32LE(result, 12), STATUS_SUCCESS)
           \/ /\ readUInt32LE(result, 12) = STATUS_SUCCESS
              /\ request(socket,
                         createRequest(READ, 0, 0, messageid,
                                       treeid, sessionid, fileid))
              /\ pc' = "read"
              /\ UNCHANGED <<options, rpcMessageid, sessionid, treeid, fileid,
                             done, shares, inbound, error, responses,
                   lastEvent>>

\* lines 204-226: the write of the fragment length at line 217 throws when
\* the server name is too long
AfterRead ==
    /\ Resumes("read")
    /\ LET result == responsePromise.value
       IN  \/ confirmStatusThrows(readUInt32LE(result, 12), STATUS_SUCCESS)
           \/ /\ readUInt32LE(result, 12) = STATUS_SUCCESS
              /\ IF baseOutOfRange(options.host)
                 THEN ThrowsRangeError
                 ELSE
                 /\ request(socket,
                        createRequest(IOCTL, ioctlBytes(options.host),
                                      rpcMessageid, messageid, treeid,
                                      sessionid, fileid))
                 /\ pc' = "ioctl"
                 /\ UNCHANGED <<options, rpcMessageid, sessionid, treeid,
                                fileid, done, shares, inbound, error,
                                responses, lastEvent>>

\* lines 227-256: the parse of the result, then the CLOSE request; a read
\* beyond the buffer throws a RangeError out of the function
AfterIoctl ==
    /\ Resumes("ioctl")
    /\ LET result == responsePromise.value
           parsed == parseShares(result)
       IN  \/ confirmStatusThrows(readUInt32LE(result, 12), STATUS_SUCCESS)
           \/ /\ readUInt32LE(result, 12) = STATUS_SUCCESS
              /\ shares' = parsed.shares
              /\ IF parsed.ok
                 THEN /\ done' = TRUE
                      /\ request(socket,
                                 createRequest(CLOSE, 0, 0, messageid,
                                               treeid, sessionid, fileid))
                      /\ pc' = "close"
                      /\ error' = error
                 ELSE /\ error' = Err("RangeError")
                      /\ pc' = "failed"
                      /\ UNCHANGED <<done, responsePromise, socket, messageid>>
              /\ UNCHANGED <<options, rpcMessageid, sessionid, treeid, fileid,
                             inbound, responses,
                   lastEvent>>

\* the step after CLOSE confirming the status like the other steps
AfterClose_confirmsStatus ==
    /\ Resumes("close")
    /\ LET result == responsePromise.value
       IN  \/ confirmStatusThrows(readUInt32LE(result, 12), STATUS_SUCCESS)
           \/ /\ readUInt32LE(result, 12) = STATUS_SUCCESS
              /\ socket' = [socket EXCEPT !.destroyed = TRUE]
              /\ pc' = "close_then"
              /\ UNCHANGED <<options, messageid, rpcMessageid, sessionid,
                             treeid, fileid, done, shares, responsePromise,
                             inbound, error, responses, lastEvent>>

\* line 256: .then(() => socket.destroy()) on the resolved CLOSE request
AfterClose ==
    /\ Resumes("close")
    /\ socket' = [socket EXCEPT !.destroyed = TRUE]
    /\ pc' = "close_then"
    /\ UNCHANGED <<options, messageid, rpcMessageid, sessionid, treeid, fileid,
                   done, shares, responsePromise, inbound, error, responses,
                   lastEvent>>

\* the return without the await of the CLOSE request
Return_noAwait ==
    /\ pc \in {"close", "close_then"}
    /\ pc' = "returned"
    /\ UNCHANGED <<options, messageid, rpcMessageid, sessionid, treeid, fileid,
                   done, shares, responsePromise, socket, inbound, error,
                   responses,
                   lastEvent>>

\* line 258
Return ==
    /\ pc = "close_then"
    /\ pc' = "returned"
    /\ UNCHANGED <<options, messageid, rpcMessageid, sessionid, treeid, fileid,
                   done, shares, responsePromise, socket, inbound, error,
                   responses,
                   lastEvent>>

(***************************************************************************)
(* The socket's event handlers.  An event is delivered to a socket whose    *)
(* connect was called and that is not destroyed, once the async function   *)
(* has run as far as it can.                                               *)
(***************************************************************************)
JobPending ==
    \/ pc \in AwaitPcs /\ responsePromise.state \in {"resolved", "rejected"}
    \/ pc = "close_then"

Listening ==
    socket.opened /\ ~socket.destroyed /\ ~socket.ended /\ ~JobPending

\* responsePromise.resolve(data) / .reject(err): no effect once settled.
\* Before the first request (setTimeout threw at line 160) responsePromise
\* is undefined: the handler throws there, after what it did to the socket,
\* and the exception goes to the event loop, not to the caller.
resolve(data) ==
    IF responsePromise.state = "pending"
    THEN [state |-> "resolved", value |-> data]
    ELSE responsePromise

reject(err) ==
    IF responsePromise.state = "pending"
    THEN [state |-> "rejected", value |-> err]
    ELSE responsePromise

\* the 'data' handler discarding a second frame too when the first one it
\* discarded was pending and the second is pending as well
socket_on_data_slicesTwice ==
    /\ Listening
    /\ ~socket.ended
    /\ inbound # <<>>
    /\ LET received == Flatten(inbound)
           packetLength == readUInt32BE(received, 0)
           once == IF Len(received) > packetLength + 4
                   THEN slice(received, packetLength + 4, Len(received))
                   ELSE received
           nextLength == readUInt32BE(once, 0)
           data == IF /\ Len(received) > packetLength + 4
                      /\ Len(once) > nextLength + 4
                      /\ readUInt32LE(received, 12) = STATUS_PENDING
                      /\ readUInt32LE(once, 12) = STATUS_PENDING
                   THEN slice(once, nextLength + 4, Len(once))
                   ELSE once
           status == readUInt32LE(data, 12)
       IN  IF status # STATUS_PENDING
           THEN /\ responsePromise' = resolve(data)
                /\ responses' =
                     IF responsePromise.state = "pending"
                     THEN Append(responses, [request |-> Len(socket.written),
                                             status |-> status])
                     ELSE responses
           ELSE UNCHANGED <<responsePromise, responses>>
    /\ inbound' = <<>>
    /\ UNCHANGED <<options, pc, messageid, rpcMessageid, sessionid, treeid,
                   fileid, done, shares, socket, error>>
    /\ lastEvent' = "data"

\* the 'data' handler without the skip of a first frame
socket_on_data_noSlice ==
    /\ Listening
    /\ ~socket.ended
    /\ inbound # <<>>
    /\ LET data == Flatten(inbound)
           status == readUInt32LE(data, 12)
       IN  IF status # STATUS_PENDING
           THEN /\ responsePromise' = resolve(data)
                /\ responses' =
                     IF responsePromise.state = "pending"
                     THEN Append(responses, [request |-> Len(socket.written),
                                             status |-> status])
                     ELSE responses
           ELSE UNCHANGED <<responsePromise, responses>>
    /\ inbound' = <<>>
    /\ UNCHANGED <<options, pc, messageid, rpcMessageid, sessionid, treeid,
                   fileid, done, shares, socket, error>>
    /\ lastEvent' = "data"

\* the 'data' handler resolving only on the message id of the last request
socket_on_data_checksMessageId ==
    /\ Listening
    /\ ~socket.ended
    /\ inbound # <<>>
    /\ LET received == Flatten(inbound)
           packetLength == readUInt32BE(received, 0)
           data == IF Len(received) > packetLength + 4
                   THEN slice(received, packetLength + 4, Len(received))
                   ELSE received
           status == readUInt32LE(data, 12)
       IN  IF /\ status # STATUS_PENDING
              /\ readUInt32LE(data, 28) = U32LE(messageid - 1)
           THEN /\ responsePromise' = resolve(data)
                /\ responses' =
                     IF responsePromise.state = "pending"
                     THEN Append(responses, [request |-> Len(socket.written),
                                             status |-> status])
                     ELSE responses
           ELSE UNCHANGED <<responsePromise, responses>>
    /\ inbound' = <<>>
    /\ UNCHANGED <<options, pc, messageid, rpcMessageid, sessionid, treeid,
                   fileid, done, shares, socket, error>>
    /\ lastEvent' = "data"

\* lines 137-148
socket_on_data ==
    /\ Listening
    /\ ~socket.ended
    /\ inbound # <<>>
    /\ LET received == Flatten(inbound)
           packetLength == readUInt32BE(received, 0)
           data == IF Len(received) > packetLength + 4
                   THEN slice(received, packetLength + 4, Len(received))
                   ELSE received
           status == readUInt32LE(data, 12)
       IN  IF status # STATUS_PENDING
           THEN /\ responsePromise' = resolve(data)
                /\ responses' =
                     IF responsePromise.state = "pending"
                     THEN Append(responses, [request |-> Len(socket.written),
                                             status |-> status])
                     ELSE responses
           ELSE UNCHANGED <<responsePromise, responses>>
    /\ inbound' = <<>>
    /\ UNCHANGED <<options, pc, messageid, rpcMessageid, sessionid, treeid,
                   fileid, done, shares, socket, error>>
    /\ lastEvent' = "data"

\* the 'timeout' handler destroying the socket without rejecting the promise
socket_on_timeout_noReject ==
    /\ Listening
    /\ socket.written # <<>>
    /\ socket' = [socket EXCEPT !.destroyed = TRUE]
    /\ UNCHANGED <<options, pc, messageid, rpcMessageid, sessionid, treeid,
                   fileid, done, shares, responsePromise, inbound, error,
                   responses>>
    /\ lastEvent' = "timeout"

\* the idle timer runs: setTimeout (line 160) did not throw, and then the
\* first request was written in the same step (line 165)
TimerSet == socket.written # <<>>

\* lines 148-150
socket_on_timeout ==
    /\ Listening
    /\ TimerSet
    /\ socket' = [socket EXCEPT !.destroyed = TRUE]
    /\ responsePromise' = reject(Err("Connection timeout"))
    /\ UNCHANGED <<options, pc, messageid, rpcMessageid, sessionid, treeid,
                   fileid, done, shares, inbound, error, responses>>
    /\ lastEvent' = "timeout"

\* the 'error' handler without its socket.destroy()
socket_on_error_noDestroy ==
    /\ Listening
    /\ responsePromise' = reject(Err("socket error"))
    /\ UNCHANGED <<options, pc, messageid, rpcMessageid, sessionid, treeid,
                   fileid, done, shares, inbound, socket, error, responses>>
    /\ lastEvent' = "error"

\* lines 151-153
socket_on_error ==
    /\ Listening
    /\ socket' = [socket EXCEPT !.destroyed = TRUE]
    /\ responsePromise' = reject(Err("socket error"))
    /\ UNCHANGED <<options, pc, messageid, rpcMessageid, sessionid, treeid,
                   fileid, done, shares, inbound, error, responses>>
    /\ lastEvent' = "error"

\* lines 154-157: the stream ends once, after the data before it was read.
\* The handler rejects the outstanding request unless done; it does not
\* destroy the socket.
socket_on_end ==
    /\ Listening
    /\ inbound = <<>>
    /\ socket' = [socket EXCEPT !.ended = TRUE]
    /\ responsePromise' =
         IF ~done THEN reject(Err("Connection unexpected ended"))
         ELSE responsePromise
    /\ UNCHANGED <<options, pc, messageid, rpcMessageid, sessionid, treeid,
                   fileid, done, shares, inbound, error, responses>>
    /\ lastEvent' = "end"

\* line 136: the socket is made without options, so allowHalfOpen is false.
\* After 'end' the runtime ends the writable side, and when that has
\* finished ('finish') it destroys the socket.  This happens in a later turn
\* of the event loop than the 'end' handler: the job that fails the call
\* after the rejection runs before it.  No 'data', 'timeout' or 'error' is
\* delivered between 'end' and this step.
socket_finish ==
    /\ socket.opened
    /\ socket.ended
    /\ ~socket.destroyed
    /\ ~JobPending
    /\ socket' = [socket EXCEPT !.destroyed = TRUE]
    /\ UNCHANGED <<options, pc, messageid, rpcMessageid, sessionid, treeid,
                   fileid, done, shares, inbound, responsePromise, error,
                   responses>>
    /\ lastEvent' = "finish"

\* the server sends a delivery in answer to the outstanding request; it is
\* read by the next 'data' event
ServerSend ==
    /\ Listening
    /\ inbound = <<>>
    /\ responsePromise.state = "pending"
    /\ LET last == socket.written[Len(socket.written)]
       IN  inbound' \in Deliveries(last.command, last.messageid)
    /\ UNCHANGED <<options, pc, messageid, rpcMessageid, sessionid, treeid,
                   fileid, done, shares, responsePromise, socket, error,
                   responses,
                   lastEvent>>

Next ==
    \/ Start
    \/ AfterNegotiate
    \/ AfterSessionSetup1
    \/ AfterSessionSetup2
    \/ AfterTreeConnect
    \/ AfterCreate
    \/ AfterWrite
    \/ AfterRead
    \/ AfterIoctl
    \/ AfterClose
    \/ Return
    \/ AwaitRejected
    \/ socket_on_data
    \/ socket_on_timeout
    \/ socket_on_error
    \/ socket_on_end
    \/ socket_finish
    \/ ServerSend

Spec == Init /\ [][Next]_vars

(***************************************************************************)
(* confirmStatus over the status codes a response can carry: the function  *)
(* taken up where the answer to NEGOTIATE or to the first SESSION_SETUP    *)
(* has just resolved its request.                                          *)
(***************************************************************************)
\* the error codes 0xC00000xx, success, more-processing, a warning and an
\* error code with a second non-zero byte
ReceivedStatuses ==
    ({ <<b, 0, 0, 192>> : b \in 0..255 }
     \cup { STATUS_SUCCESS, <<5, 0, 0, 128>>, <<91, 1, 0, 192>> })
    \ { STATUS_PENDING }

\* the requests of a run to the host "srv" whose server answered with its
\* first identifiers
RequestsOfRun ==
    LET host == <<"s", "r", "v">>
        fid0 == [isString |-> FALSE, hex |-> <<>>]
        fid1 == [isString |-> TRUE, hex |-> toHex(FileIds[1])]
        sid1 == toHex(SessionIds[1])
    IN  << createRequest(NEGOTIATE, 0, 0, 0, U32LE(0), <<0>>, fid0),
           createRequest(SESSION_SETUP, 0, 0, 1, U32LE(0), <<0>>, fid0),
           createRequest(SESSION_SETUP, 0, 0, 2, U32LE(0), sid1, fid0),
           createRequest(TREE_CONNECT, pathBytes(host), 0, 3, U32LE(0), sid1,
                         fid0),
           createRequest(CREATE, 12, 0, 4, TreeIds[1], sid1, fid0),
           createRequest(WRITE, 116, 0, 5, TreeIds[1], sid1, fid1),
           createRequest(READ, 0, 0, 6, TreeIds[1], sid1, fid1),
           createRequest(IOCTL, ioctlBytes(host), 1, 7, TreeIds[1], sid1,
                         fid1) >>

\* the requests written when the step at has its answer
WrittenAt(at) ==
    SubSeq(RequestsOfRun, 1,
           CASE at = "negotiate" -> 1
             [] at = "session_setup_1" -> 2
             [] at = "ioctl" -> Len(RequestsOfRun))

InitStatus ==
    \E at \in {"negotiate", "session_setup_1"}, st \in ReceivedStatuses :
        /\ options = Obj(<<"s", "r", "v">>)
        /\ pc = at
        /\ messageid = Len(WrittenAt(at))
        /\ rpcMessageid = 0
        /\ sessionid = <<0>>
        /\ treeid = U32LE(0)
        /\ fileid = [isString |-> FALSE, hex |-> <<>>]
        /\ done = FALSE
        /\ shares = <<>>
        /\ responsePromise =
             [state |-> "resolved",
              value |-> MkFrame(st, WrittenAt(at)[messageid].command,
                                messageid - 1, TreeIds[1], SessionIds[1],
                                HandleBody(FileIds[1]))]
        /\ socket = [created |-> TRUE, opened |-> TRUE,
                     destroyed |-> FALSE, ended |-> FALSE,
                     written |-> WrittenAt(at)]
        /\ inbound = <<>>
        /\ error = NoError
        /\ responses =
             IF at = "negotiate" THEN << [request |-> 1, status |-> st] >>
             ELSE << [request |-> 1, status |-> STATUS_SUCCESS],
                     [request |-> 2, status |-> st] >>
        /\ lastEvent = "data"

NextStatus ==
    \/ AfterNegotiate
    \/ AfterSessionSetup1

SpecStatus == InitStatus /\ [][NextStatus]_vars

(***************************************************************************)
(* The parser over the procedure responses a server can send: the function *)
(* taken up where the answer to IOCTL has just resolved its request.       *)
(***************************************************************************)
\* the lists of at most n share descriptions
RECURSIVE ShareLists(_)
ShareLists(n) ==
    IF n = 0 THEN { <<>> }
    ELSE ShareLists(n - 1)
         \cup { Append(ss, ServerShares[k]) :
                  ss \in ShareLists(n - 1), k \in DOMAIN ServerShares }

\* the well-formed responses, and responses that declare one share more
\* than they carry
ParsedResponses ==
    { RpcResponse(Len(ss), ss) : ss \in ShareLists(MaxEntries) }
    \cup { RpcResponse(Len(ss) + 1, ss) : ss \in ShareLists(1) }

InitParse ==
    \E rpc \in ParsedResponses :
        /\ options = Obj(<<"s", "r", "v">>)
        /\ pc = "ioctl"
        /\ messageid = Len(WrittenAt("ioctl"))
        /\ rpcMessageid = 1
        /\ sessionid = toHex(SessionIds[1])
        /\ treeid = TreeIds[1]
        /\ fileid = [isString |-> TRUE, hex |-> toHex(FileIds[1])]
        /\ done = FALSE
        /\ shares = <<>>
        /\ responsePromise =
             [state |-> "resolved",
              value |-> MkFrame(STATUS_SUCCESS, IOCTL, 7, TreeIds[1],
                                SessionIds[1], IoctlBody(rpc))]
        /\ socket = [created |-> TRUE, opened |-> TRUE,
                     destroyed |-> FALSE, ended |-> FALSE,
                     written |-> WrittenAt("ioctl")]
        /\ inbound = <<>>
        /\ error = NoError
        /\ responses =
             [k \in 1..Len(WrittenAt("ioctl")) |->
                [request |-> k,
                 status |-> IF k = 2 THEN STATUS_MORE_PROCESSING
                            ELSE STATUS_SUCCESS]]
        /\ lastEvent = "data"

NextParse == AfterIoctl

SpecParse == InitParse /\ [][NextParse]_vars

(***************************************************************************)
(* Properties.                                                             *)
(***************************************************************************)
written == socket.written

\* the opcodes of the pipeline, in order (index.js:162-256)
PIPELINE == <<NEGOTIATE, SESSION_SETUP, SESSION_SETUP, TREE_CONNECT, CREATE,
              WRITE, READ, IOCTL, CLOSE>>

\* C1: the opcodes written to the socket are always a prefix of NEGOTIATE,
\* SESSION_SETUP, SESSION_SETUP, TREE_CONNECT, CREATE, WRITE, READ, IOCTL,
\* CLOSE, and a run that returns has written all nine.
C1_OpcodesArePipelinePrefix ==
    /\ Len(written) <= Len(PIPELINE)
    /\ \A k \in 1..Len(written) : written[k].command = PIPELINE[k]
    /\ pc = "returned" => Len(written) = Len(PIPELINE)

C1_Witness ==
    /\ pc = "returned"
    /\ [k \in 1..Len(written) |-> written[k].command] = PIPELINE

\* the status of a response buffer, and the status each step expects
StatusOf(buf) == readUInt32LE(buf, 12)

ExpectedStatus(at) ==
    IF at = "session_setup_1" THEN STATUS_MORE_PROCESSING ELSE STATUS_SUCCESS

\* the request with number k was resolved by a frame of status st
ResolvedWith(k, st) ==
    \E i \in DOMAIN responses :
        responses[i].request = k /\ responses[i].status = st

\* the 'data' handler runs in this step
DataEvent == inbound # <<>> /\ inbound' = <<>>

\* C2: at most one request is outstanding: every request but the last one
\* written has been resolved by a frame whose status is not pending, and the
\* requests written exceed the requests resolved by at most one.
C2_OneOutstanding ==
    /\ Len(written) - Len(responses) \in {0, 1}
    /\ \A k \in 1..(Len(written) - 1) :
         \E i \in DOMAIN responses :
            /\ responses[i].request = k
            /\ responses[i].status # STATUS_PENDING

C2_Witness ==
    /\ Len(written) = 9
    /\ Len(responses) = 8
    /\ responsePromise.state = "pending"
    /\ inbound # <<>>

\* C3: when the response of one of the first eight steps has a status other
\* than the step expects, the function fails at once with the socket destroyed
\* and nothing written; once failed it stays failed and writes nothing more.
C3_MismatchAborts ==
    [][ /\ ( /\ pc \in AwaitPcs \ {"close"}
             /\ responsePromise.state = "resolved"
             /\ StatusOf(responsePromise.value) # ExpectedStatus(pc) )
           => ( /\ pc' = "failed"
                /\ socket'.destroyed
                /\ socket'.written = socket.written )
        /\ pc = "failed"
           => (pc' = "failed" /\ socket'.written = socket.written) ]_vars

\* SESSION_SETUP step 1 answered with success: failed, destroyed, two requests
C3_Witness ==
    /\ pc = "failed"
    /\ socket.destroyed
    /\ Len(written) = 2
    /\ ResolvedWith(2, STATUS_SUCCESS)
    /\ error = [name |-> "NTSTATUS", status |-> <<0>>,
                expected |-> toString16(STATUS_MORE_PROCESSING)]

\* C4 as claimed: a run returns only when the response to CLOSE had the
\* status success.
C4_CloseStatusConfirmed ==
    pc = "returned" =>
        \A i \in DOMAIN responses :
            responses[i].request = 9 => responses[i].status = STATUS_SUCCESS

\* C4 amended: the status of the response to CLOSE is not looked at: whatever
\* frame resolved the CLOSE request, the socket is destroyed and the function
\* returns the shares it parsed.
C4_CloseStatusIgnored ==
    [][ /\ (pc = "close" /\ responsePromise.state = "resolved")
           => (pc' = "close_then" /\ socket'.destroyed /\ shares' = shares)
        /\ pc = "close_then"
           => (pc' = "returned" /\ shares' = shares /\ error' = NoError) ]_vars

C4_Witness ==
    /\ pc = "returned"
    /\ \E i \in DOMAIN responses :
          responses[i].request = 9 /\ responses[i].status # STATUS_SUCCESS

\* C5: messageid counts the requests written: request k carries k - 1, and
\* the counter changes only by one, together with a write.
C5_MessageIdCounts ==
    /\ [](/\ messageid = Len(written)
          /\ \A k \in 1..Len(written) : written[k].messageid = k - 1)
    /\ [][ \/ messageid' = messageid
           \/ /\ messageid' = messageid + 1
              /\ Len(socket'.written) = Len(socket.written) + 1 ]_vars

C5_Witness ==
    /\ pc = "returned"
    /\ messageid = 9
    /\ written[9].messageid = 8

\* C6 as claimed: a frame resolves the outstanding request only when the
\* message id at offset 28 equals the one written into the request.
C6_ResolvedByMatchingId ==
    [][ (responsePromise.state = "pending"
         /\ responsePromise'.state = "resolved")
        => readUInt32LE(responsePromise'.value, 28)
             = U32LE(written[Len(written)].messageid) ]_vars

\* C6 amended: a frame delivered alone whose status is not pending resolves
\* the outstanding request, whatever message id it echoes.
C6_ResolvedWhateverId ==
    [][ ( /\ DataEvent
          /\ responsePromise.state = "pending"
          /\ Len(inbound) = 1
          /\ StatusOf(inbound[1]) # STATUS_PENDING )
        => responsePromise' = [state |-> "resolved", value |-> inbound[1]]
      ]_vars

\* a request resolved by a frame echoing another message id
C6_Witness ==
    /\ responsePromise.state = "resolved"
    /\ readUInt32LE(responsePromise.value, 28)
         # U32LE(written[Len(written)].messageid)

\* C7: a request carrying a file handle is written after CREATE was resolved
\* with success and carries the handle read from that response; a request
\* written before TREE_CONNECT was resolved with success carries tree id 0,
\* a later one the tree id read from that response.
C7_IdsAfterEstablished ==
    /\ [](\A k \in 1..Len(written) :
            /\ written[k].command \in {WRITE, READ, IOCTL, CLOSE}
               => /\ \E j \in 1..(k - 1) :
                        /\ written[j].command = CREATE
                        /\ ResolvedWith(j, STATUS_SUCCESS)
                  /\ fileid.isString
                  /\ written[k].fileid = hexBytes(fileid.hex, 16)
            /\ IF \E j \in 1..(k - 1) :
                     /\ written[j].command = TREE_CONNECT
                     /\ ResolvedWith(j, STATUS_SUCCESS)
               THEN written[k].treeid = treeid
               ELSE written[k].treeid = U32LE(0))
    /\ [][ /\ fileid' # fileid
              => /\ Resumes("create")
                 /\ StatusOf(responsePromise.value) = STATUS_SUCCESS
                 /\ fileid'.hex = toHex(slice(responsePromise.value, 132, 148))
           /\ treeid' # treeid
              => /\ Resumes("tree_connect")
                 /\ StatusOf(responsePromise.value) = STATUS_SUCCESS
                 /\ treeid' = readUInt32LE(responsePromise.value, 40) ]_vars

C7_Witness ==
    /\ pc = "returned"
    /\ written[4].treeid = U32LE(0)
    /\ written[5].treeid = TreeIds[2]
    /\ written[9].fileid = FileIds[2]

\* C8: a delivery of two frames, the first pending and the second success,
\* resolves the outstanding request once, with the second frame; the step
\* then reads tree id and session id from the buffer it was resolved with.
C8_SecondFrameResolves ==
    [][ /\ ( /\ DataEvent
             /\ responsePromise.state = "pending"
             /\ Len(inbound) = 2
             /\ StatusOf(inbound[1]) = STATUS_PENDING
             /\ StatusOf(inbound[2]) = STATUS_SUCCESS )
           => /\ responsePromise' =
                   [state |-> "resolved", value |-> inbound[2]]
              /\ responses' = Append(responses,
                   [request |-> Len(written), status |-> STATUS_SUCCESS])
        /\ (pc = "tree_connect" /\ pc' = "create")
           => treeid' = readUInt32LE(responsePromise.value, 40)
        /\ (pc = "session_setup_1" /\ pc' = "session_setup_2")
           => sessionid' = toHex(slice(responsePromise.value, 44, 52)) ]_vars

\* such a delivery is about to be read while TREE_CONNECT is outstanding, and
\* its two frames differ in tree id and session id
C8_Witness ==
    /\ pc = "tree_connect"
    /\ responsePromise.state = "pending"
    /\ ~socket.destroyed /\ ~socket.ended
    /\ Len(inbound) = 2
    /\ StatusOf(inbound[1]) = STATUS_PENDING
    /\ StatusOf(inbound[2]) = STATUS_SUCCESS
    /\ readUInt32LE(inbound[1], 40) # readUInt32LE(inbound[2], 40)
    /\ slice(inbound[1], 44, 52) # slice(inbound[2], 44, 52)

\* the 'timeout' handler runs in this step
TimeoutEvent == lastEvent # "timeout" /\ lastEvent' = "timeout"

\* C9: a timeout while a request is outstanding destroys the socket and
\* rejects the request with the timeout error; the function then fails with
\* that error, and from then on nothing is written.
C9_TimeoutFails ==
    [][ /\ (TimeoutEvent /\ responsePromise.state = "pending")
           => /\ socket'.destroyed
              /\ responsePromise' = [state |-> "rejected",
                                     value |-> Err("Connection timeout")]
              /\ socket'.written = socket.written
        /\ (pc \in AwaitPcs /\ responsePromise.state = "rejected")
           => /\ pc' = "failed"
              /\ error' = responsePromise.value
              /\ socket'.written = socket.written
        /\ pc = "failed"
           => /\ pc' = "failed"
              /\ error' = error
              /\ socket'.written = socket.written ]_vars

\* the timeout fired while CLOSE was outstanding
C9_Witness ==
    /\ pc = "failed"
    /\ error = Err("Connection timeout")
    /\ socket.destroyed
    /\ Len(written) = 9
    /\ lastEvent = "timeout"

\* C10 as claimed: after the stream ended or a socket error occurred, the
\* outstanding request is rejected or the function has failed.
C10_EndOrErrorFails ==
    lastEvent \in {"end", "error"}
        => (responsePromise.state = "rejected" \/ pc = "failed")

\* C11 as claimed: once the operation has failed after the connection was
\* opened, whatever the failure, the socket has been destroyed.
C11_FailureDestroysSocket ==
    (pc = "failed" /\ socket.opened) => socket.destroyed

\* the failure is a status mismatch, a timeout, a socket error or an
\* unexpected end of the stream
ListedFailure(err) ==
    \/ err.name \in {"Connection timeout", "socket error",
                      "Connection unexpected ended"}
    \/ err.name = "NTSTATUS"
    \/ \E status \in {<<13, 0, 0, 192>>, <<34, 0, 0, 192>>, <<94, 0, 0, 192>>,
                       <<109, 0, 0, 192>>, <<114, 0, 0, 192>>,
                       <<187, 0, 0, 192>>} :
          err.name = COMMON_ERRORS(status)

\* the error of the 'end' handler
EndedError == Err("Connection unexpected ended")

\* C11: once the operation has failed by a status mismatch, a timeout or a
\* socket error, the socket has been destroyed.  When it fails by an
\* unexpected end of the stream the socket has ended and is not destroyed at
\* the failure: the function does not destroy it, and the only change of the
\* socket afterwards is its destruction by the runtime.  Every other failure
\* is an exception thrown in the function itself (a RangeError or TypeError
\* of setTimeout, of the building of a request or of the parser), which
\* leaves the socket as it was.
C11_SocketAtFailure ==
    /\ []((pc = "failed" /\ socket.opened /\ ListedFailure(error)
              /\ error # EndedError)
            => socket.destroyed)
    /\ []((pc = "failed" /\ ~ListedFailure(error)
              /\ error.name \notin {"Invalid smb url", "No host provided"})
            => error.name \in {"RangeError", "TypeError"})
    /\ [][/\ (pc # "failed" /\ pc' = "failed" /\ error' = EndedError)
               => (socket.ended /\ ~socket.destroyed /\ socket' = socket)
          /\ (pc = "failed" /\ error = EndedError /\ socket' # socket)
               => /\ lastEvent = "end" /\ lastEvent' = "finish"
                  /\ socket' = [socket EXCEPT !.destroyed = TRUE]
          /\ (pc # "failed" /\ pc' = "failed"
                /\ error'.name \in {"RangeError", "TypeError"})
               => socket'.destroyed = socket.destroyed]_vars

\* the stream ended while a request was outstanding: the call has failed and
\* the socket, ended, is not destroyed
C11_Witness ==
    /\ pc = "failed"
    /\ error = EndedError
    /\ lastEvent = "end"
    /\ socket.ended
    /\ ~socket.destroyed

\* the response that resolved request number k has been received
Received(k) == \E i \in 1..Len(responses) : responses[i].request = k

\* C12: a run returns only after the CLOSE request was written, then its
\* response received, then the socket destroyed by the function (a destroy
\* in a step that delivers no event), in that order; after the return
\* nothing more is written and the socket stays destroyed.
C12_ReturnAfterCloseAndDestroy ==
    /\ [](pc = "returned" =>
            /\ Len(written) = Len(PIPELINE)
            /\ written[Len(written)].command = CLOSE
            /\ Received(Len(PIPELINE))
            /\ socket.destroyed)
    /\ [][/\ (Received(Len(PIPELINE))' /\ ~Received(Len(PIPELINE)))
               => (Len(written) = Len(PIPELINE) /\ ~socket.destroyed)
          /\ (done /\ socket'.destroyed /\ ~socket.destroyed
                /\ lastEvent' = lastEvent)
               => (Received(Len(PIPELINE)) /\ pc # "returned")
          /\ (pc' = "returned" /\ pc # "returned")
               => (socket.destroyed /\ Received(Len(PIPELINE)))
          /\ pc = "returned"
               => (pc' = "returned" /\ written' = written
                   /\ socket'.destroyed)]_vars

C12_Witness ==
    /\ pc = "returned"
    /\ socket.destroyed
    /\ written[Len(written)].command = CLOSE
    /\ responses[Len(responses)].request = Len(PIPELINE)

\* a 'timeout' or 'error' event is delivered in this step
FailureEvent ==
    lastEvent' # lastEvent /\ lastEvent' \in {"timeout", "error"}

\* C13: the caller receives the share list or an error, never both: a run
\* that returned carries no error and saw no timeout or socket error, a run
\* that failed never returns; a timeout or socket error while CLOSE is
\* outstanding, the list already parsed, rejects the request and the function
\* fails with that error.
C13_NoPartialResults ==
    /\ [](pc = "returned" =>
            (error = NoError /\ lastEvent \notin {"timeout", "error"}))
    /\ [](pc = "failed" => error # NoError)
    /\ [][/\ pc = "failed" => pc' = "failed"
          /\ (pc = "close" /\ responsePromise.state = "pending"
                /\ FailureEvent)
               => /\ responsePromise'.state = "rejected"
                  /\ responsePromise'.value.name
                       \in {"Connection timeout", "socket error"}
          /\ (pc = "close" /\ responsePromise.state = "rejected")
               => (pc' = "failed" /\ error' = responsePromise.value)
          /\ (pc = "ioctl" /\ pc' = "close")
               => /\ parseShares(responsePromise.value).ok
                  /\ shares' = parseShares(responsePromise.value).shares]_vars

\* a socket error while CLOSE was outstanding, shares already parsed
C13_Witness ==
    /\ pc = "failed"
    /\ error = Err("socket error")
    /\ Len(shares) > 0
    /\ done
    /\ written[Len(written)].command = CLOSE

\* the string has a host after "smb://", directly or after user
\* information on one line that ends with "@"
HasHost(str) ==
    /\ Len(str) >= 7
    /\ SubSeq(str, 1, 6) = <<"s", "m", "b", ":", "/", "/">>
    /\ \/ HostChar(str[7])
       \/ \E j \in 7..(Len(str) - 1) :
            /\ str[j] = "@"
            /\ HostChar(str[j + 1])
            /\ \A m \in 7..(j - 1) :
                 str[m] \notin {"\n", "\r", "U+2028", "U+2029"}

\* the input is a string that is no smb url, or an object without a host
Malformed ==
    \/ options.type = "string" /\ ~HasHost(options.url)
    \/ options.type = "object" /\ Falsy(options.host)

\* C14: a malformed input (a string that does not match the url grammar, an
\* input without host) makes the call fail with its error before any
\* connection attempt: no socket is created and no request is written, then
\* or later; for any other input the socket is created.
C14_MalformedFailsBeforeConnect ==
    [][/\ (pc = "start" /\ Malformed /\ pc' # pc)
            => /\ pc' = "failed"
               /\ error' = IF options.type = "string"
                           THEN Err("Invalid smb url")
                           ELSE Err("No host provided")
               /\ ~socket'.created
               /\ socket'.written = <<>>
       /\ (pc = "start" /\ ~Malformed /\ pc' # pc)
            => socket'.created
       /\ (pc = "failed" /\ ~socket.created)
            => (~socket'.created /\ socket'.written = <<>>
                /\ inbound' = <<>>)]_vars

\* the url without host was rejected
C14_Witness ==
    /\ options = Url(<<"s", "m", "b", ":", "/", "/", ":", "4">>)
    /\ pc = "failed"
    /\ error = Err("Invalid smb url")
    /\ ~socket.created
    /\ written = <<>>

\* the codes with a symbolic name and their names
SymbolicNames ==
    { << <<13, 0, 0, 192>>,  "STATUS_INVALID_PARAMETER" >>,
      << <<34, 0, 0, 192>>,  "STATUS_ACCESS_DENIED" >>,
      << <<94, 0, 0, 192>>,  "STATUS_NO_LOGON_SERVERS" >>,
      << <<109, 0, 0, 192>>, "STATUS_LOGON_FAILURE" >>,
      << <<114, 0, 0, 192>>, "STATUS_ACCOUNT_DISABLED" >>,
      << <<187, 0, 0, 192>>, "STATUS_NOT_SUPPORTED" >> }

\* ds is the hexadecimal numeral, without leading zeros, of the code u
IsHexOf(ds, u) ==
    /\ Len(ds) \in 1..8
    /\ \A i \in 1..Len(ds) : ds[i] \in 0..15
    /\ Len(ds) > 1 => ds[1] # 0
    /\ LET p == [i \in 1..8 |-> IF i <= 8 - Len(ds) THEN 0
                                ELSE ds[i - (8 - Len(ds))]]
       IN  u = <<p[7] * 16 + p[8], p[5] * 16 + p[6],
                 p[3] * 16 + p[4], p[1] * 16 + p[2]>>

\* C15: a response whose status is not the expected one makes the function
\* fail with the symbolic name of the status when it is one of the six codes
\* of the table (access denied at the authentication step gives
\* STATUS_ACCESS_DENIED), and otherwise with the received code and the
\* expected code, both in hexadecimal.
C15_MismatchNamesStatus ==
    [][\A at \in {"negotiate", "session_setup_1"} :
         (/\ pc = at
          /\ responsePromise.state = "resolved"
          /\ StatusOf(responsePromise.value) # ExpectedStatus(at))
         => /\ pc' = "failed"
            /\ LET st == StatusOf(responsePromise.value)
               IN  IF \E e \in SymbolicNames : e[1] = st
                   THEN \E e \in SymbolicNames :
                            e[1] = st /\ error' = Err(e[2])
                   ELSE /\ error'.name = "NTSTATUS"
                        /\ IsHexOf(error'.status, st)
                        /\ IsHexOf(error'.expected, ExpectedStatus(at))]_vars

\* access denied in answer to the first SESSION_SETUP
C15_Witness ==
    /\ pc = "failed"
    /\ Len(written) = 2
    /\ written[2].command = SESSION_SETUP
    /\ responses[2].status = <<34, 0, 0, 192>>
    /\ error = Err("STATUS_ACCESS_DENIED")

\* the IOCTL response that carries the shares ss, declaring their number
ResponseWith(ss) ==
    MkFrame(STATUS_SUCCESS, IOCTL, 7, TreeIds[1], SessionIds[1],
            IoctlBody(RpcResponse(Len(ss), ss)))

\* the names of the listed kinds, by the low byte of the type word plus one
KindNames == <<"DISK_TREE", "PRINT_QUEUE", "COMM_DEVICE", "IPC">>

\* C16: from a response that declares n shares and carries them, the parse
\* yields exactly n records in the order of the response; record i has the
\* kind (when listed), the hidden bit and the temporary bit of the i-th entry
\* and the name and the comment of the i-th pair of strings.
C16_RecordsFollowResponse ==
    [][\A ss \in ShareLists(MaxEntries) :
         (pc = "ioctl" /\ responsePromise.value = ResponseWith(ss)
            /\ pc' # pc)
         => /\ pc' = "close"
            /\ Len(shares') = Len(ss)
            /\ \A i \in 1..Len(ss) :
                 /\ ss[i].type[1] < Len(KindNames)
                      => shares'[i].type = KindNames[ss[i].type[1] + 1]
                 /\ shares'[i].hidden = (ss[i].type[4] >= 128)
                 /\ shares'[i].temporary = ((ss[i].type[4] \div 64) % 2 = 1)
                 /\ shares'[i].name = ss[i].name
                 /\ shares'[i].comments = ss[i].comments]_vars

\* three shares parsed, in an order that is not the one of ServerShares
C16_Witness ==
    /\ pc = "close"
    /\ Len(shares) = 3
    /\ shares[1] = [type |-> "COMM_DEVICE", hidden |-> FALSE,
                    temporary |-> TRUE, name |-> <<67>>,
                    comments |-> <<88, 89, 90>>]
    /\ shares[2].name = <<73, 80, 67, 36>>
    /\ shares[3].name = <<80, 85, 66>>

\* C17 as claimed: every record of the parsed list has a type that is one of
\* DISK_TREE, PRINT_QUEUE, COMM_DEVICE and IPC, whatever the low byte of the
\* type word.
C17_TypeIsListedKind ==
    pc = "close" =>
        \A i \in 1..Len(shares) :
            shares[i].type \in {"DISK_TREE", "PRINT_QUEUE", "COMM_DEVICE",
                                "IPC"}

\* the payload the parse works on: the response from its output offset on
PayloadOf(result) ==
    slice(result, Num(readUInt32LE(result, 100)) + 4, Len(result))

\* the start of the descriptor of string number k (from 0) of a payload
\* that declares n shares: each string occupies its 12-byte descriptor and
\* L * 2 bytes, two more when its length L is odd
RECURSIVE DescriptorStart(_, _, _)
DescriptorStart(data, n, k) ==
    IF k = 0 THEN 48 + 12 * n
    ELSE LET start == DescriptorStart(data, n, k - 1)
             L == Num(readUInt32LE(data, start + 8))
         IN  start + 12 + L * 2 + (IF L % 2 = 1 THEN 2 ELSE 0)

\* the text of string number k: the L * 2 - 2 bytes after its descriptor
TextOf(data, n, k) ==
    LET start == DescriptorStart(data, n, k)
        L == Num(readUInt32LE(data, start + 8))
    IN  toUcs2(SubSeq(data, start + 12 + 1, start + 12 + L * 2 - 2))

\* C18: in the second pass a string of declared length L has its text in the
\* L * 2 - 2 bytes after its 12-byte descriptor, and the cursor moves from
\* the start of the descriptor by 12 + L * 2 when L is even and by
\* 12 + L * 2 + 2 when L is odd: name and comment of every record are the
\* texts found that way, and the cursor ends at the end of the payload.
C18_SecondPassCursor ==
    [][\A ss \in ShareLists(MaxEntries) :
         (pc = "ioctl" /\ responsePromise.value = ResponseWith(ss)
            /\ pc' # pc)
         => LET data == PayloadOf(responsePromise.value)
                n == Len(ss)
            IN  /\ Len(shares') = n
                /\ \A i \in 1..n :
                     /\ shares'[i].name = TextOf(data, n, 2 * i - 2)
                     /\ shares'[i].comments = TextOf(data, n, 2 * i - 1)
                /\ parseShares(responsePromise.value).offset
                     = DescriptorStart(data, n, 2 * n)
                /\ DescriptorStart(data, n, 2 * n) = Len(data)]_vars

\* strings of odd and of even declared length were parsed one after another
C18_Witness ==
    /\ pc = "close"
    /\ Len(shares) = 2
    /\ shares[1].name = <<73, 80, 67, 36>>
    /\ shares[1].comments = <<82, 101>>
    /\ shares[2].name = <<67>>
    /\ shares[2].comments = <<88, 89, 90>>

\* the frames before number j of the delivery are pending, frame j is not
FirstNonPending(j) ==
    /\ j \in 1..Len(inbound)
    /\ \A i \in 1..(j - 1) : StatusOf(inbound[i]) = STATUS_PENDING
    /\ StatusOf(inbound[j]) # STATUS_PENDING

\* C19 as claimed: when a delivery begins with one or more pending frames,
\* all of them are discarded and the outstanding request is resolved with
\* the first frame that is not pending.
C19_AllLeadingPendingSkipped ==
    [][\A j \in 2..MaxFrames :
         (DataEvent /\ responsePromise.state = "pending"
            /\ FirstNonPending(j))
         => responsePromise' =
              [state |-> "resolved",
               value |-> Flatten(SubSeq(inbound, j, Len(inbound)))]]_vars

\* C19: of a delivery of more than one frame the handler discards the first
\* frame only and examines the frame after it: when that frame is not
\* pending the request is resolved with the rest of the delivery from that
\* frame on, and when it is pending (as in pending, pending, success) the
\* request stays outstanding.
C19_OnlyFirstFrameSkipped ==
    [][(DataEvent /\ responsePromise.state = "pending")
         => LET examined == IF Len(inbound) > 1 THEN 2 ELSE 1
            IN  IF StatusOf(inbound[examined]) # STATUS_PENDING
                THEN responsePromise' =
                       [state |-> "resolved",
                        value |-> Flatten(SubSeq(inbound, examined,
                                                 Len(inbound)))]
                ELSE /\ responsePromise' = responsePromise
                     /\ responses' = responses
                     /\ pc' = pc]_vars

\* pending, pending, success is about to be read for an outstanding request
C19_Witness ==
    /\ responsePromise.state = "pending"
    /\ ~socket.destroyed /\ ~socket.ended
    /\ Len(inbound) = 3
    /\ FirstNonPending(3)
    /\ StatusOf(inbound[3]) = STATUS_SUCCESS

\* the three identifiers of the session
ids == <<sessionid, treeid, fileid>>

\* a socket event is handled or a delivery arrives in this step
SocketStep == lastEvent' # lastEvent \/ inbound' # inbound

\* C20: each identifier is written once, by the step that resumes with its
\* establishing response after the status was confirmed (session id: first
\* SESSION_SETUP, more-processing; tree id: TREE_CONNECT, success; file id:
\* CREATE, success), from the bytes of that response; every other step of
\* the function and every socket event leaves the three unchanged; a
\* delivery that is one pending frame leaves the request outstanding.
C20_IdsWrittenOnce ==
    /\ [](/\ sessionid # <<0>> <=> Len(written) >= 3
          /\ treeid # U32LE(0) => Len(written) >= 5
          /\ fileid.isString <=> Len(written) >= 6)
    /\ [][/\ ids' # ids
            => \/ /\ pc = "session_setup_1" /\ pc' = "session_setup_2"
                  /\ StatusOf(responsePromise.value) = STATUS_MORE_PROCESSING
                  /\ sessionid = <<0>>
                  /\ sessionid' = toHex(SubSeq(responsePromise.value, 45, 52))
                  /\ treeid' = treeid /\ fileid' = fileid
               \/ /\ pc = "tree_connect" /\ pc' = "create"
                  /\ StatusOf(responsePromise.value) = STATUS_SUCCESS
                  /\ treeid = U32LE(0)
                  /\ treeid' = SubSeq(responsePromise.value, 41, 44)
                  /\ sessionid' = sessionid /\ fileid' = fileid
               \/ /\ pc = "create" /\ pc' = "write"
                  /\ StatusOf(responsePromise.value) = STATUS_SUCCESS
                  /\ ~fileid.isString
                  /\ fileid' = [isString |-> TRUE,
                                hex |-> toHex(SubSeq(responsePromise.value,
                                                     133, 148))]
                  /\ sessionid' = sessionid /\ treeid' = treeid
          /\ SocketStep => ids' = ids
          /\ (DataEvent /\ Len(inbound) = 1
                /\ StatusOf(inbound[1]) = STATUS_PENDING)
               => (responsePromise' = responsePromise /\ pc' = pc
                   /\ responses' = responses)]_vars

\* a run whose later responses carried other identifiers than the
\* establishing ones
C20_Witness ==
    /\ pc = "returned"
    /\ sessionid = toHex(SessionIds[2])
    /\ treeid = TreeIds[1]
    /\ fileid = [isString |-> TRUE, hex |-> toHex(FileIds[2])]
    /\ Len(responses) = Len(PIPELINE)

====
